---- MODULE Spec2Model ----
(***************************************************************************)
(* Poll-and-broadcast cache of vibetorrent (src/src/state.rs) together     *)
(* with its SSE subscribers (src/src/sse.rs).                              *)
(*                                                                         *)
(* Processes:                                                              *)
(*   - the poller task spawned by AppState::spawn_poller,                  *)
(*   - request-serving caller tasks running AppState::refresh_cache,       *)
(*   - SSE handlers torrent_events / stats_events and their streams,       *)
(*   - the owner of the AppState (constructor AppState::new, Drop).        *)
(* Every await point and every access to shared state (RwLock slot,        *)
(* broadcast channel, watch channel) is one step.                          *)
(***************************************************************************)
EXTENDS Integers, Sequences, FiniteSets, TLC

\* ------------------------------------------------------------------ bounds
\* Number of get_torrents results the daemon hands out in one behaviour.
MaxFetch == 2
\* The same bound for the specification that fills a subscriber's backlog.
MaxFetchLag == 18

\* Rows of one response, scalar elements of one row, and elements without
\* text (empty or self-closing) in one response.
MaxRows == 2
MaxCols == 13
MaxEmpty == 1
MaxSplit == 1

\* Characters of a payload and bytes of a response.
MaxPayload == 6
MaxResponse == 7
\* Characters of an identifier or a URL given to a request builder.
MaxParam == 4
\* Field specifiers in a parameter list given to build_multicall_xml.
MaxSpecifiers == 3
\* Bytes of the data given to base64_encode: every short length, and one
\* long one.
MaxData == 3
LongData == 100

\* ------------------------------------------------------- program constants
\* A cache built with channels twice as large.
CapacityDoubled == 2 * 16
\* broadcast::channel(16)
Capacity == 16
\* current_values.len() >= 12: the values a row needs to become a record.
RowArity == 12
\* free_disk_space placeholder of get_global_stats, 2_000_000_000_000 bytes.
\* Disk space is counted in units of 10^6 bytes throughout.
FreeDiskDefault == 2000000

\* ------------------------------------------------------------------- data
\* Option<T>: None is the empty sequence, Some(x) is <<x>>.
None == << >>
Some(x) == << x >>
IsSome(o) == o # << >>
Unwrap(o) == o[1]

\* The SSE clients: one per endpoint.
AllSubs == {1, 2}
Feeds == {"torrents", "stats"}
\* The endpoint a client opens: odd clients the item feed (torrent_events),
\* even clients the counters feed (stats_events).
ClientFeeds(s) == IF s % 2 = 1 THEN {"torrents"} ELSE {"stats"}

\* Torrent records as far as the cache reads them.
T1 == [hash |-> "h1", down_rate |-> 1, up_rate |-> 2, free_disk_space |-> 50]
T2 == [hash |-> "h2", down_rate |-> 4, up_rate |-> 0, free_disk_space |-> 0]
\* The lists get_torrents can return.  The daemon's list changes on its own;
\* `daemon` is the index of the list the next get_torrents reads, and the
\* daemon has moved on to the following list by the next read.  The last
\* list is the one decoded from a response in which two rows carry the same
\* hash: the decoder gives one record for each row (rtorrent.rs:359-373).
DaemonLists == << << >>, << T1 >>, << T2, T1 >>, << T1, T1 >> >>
\* The rates throttle.global_down.rate / throttle.global_up.rate can report.
GlobalRates == {0, 9}

VARIABLES
    last_torrents,   \* Option<Arc<Vec<Torrent>>>, the 'latest' item slot
    last_stats,      \* Option<Arc<GlobalStats>>, the 'latest' counters slot
    torrents_tx,     \* broadcast channel of the item feed
    stats_tx,        \* broadcast channel of the counters feed
    shutdown,        \* value of the watch channel (TRUE once AppState dropped)
    poller_pc,       \* position of the poller task
    need_torrents,   \* poller local
    need_stats,      \* poller local
    torrents_result, \* poller local: Some(snapshot) for Ok, None otherwise
    stats_result,    \* poller local: the GlobalStats being built
    refresh_pc,      \* position of the refresh_cache caller
    refresh_snap,    \* refresh_cache local `snapshot`
    daemon,          \* index in DaemonLists of the daemon's current list
    sse,             \* per SSE client: handler position, receiver cursor
    fetches,         \* ghost: number of get_torrents results so far
    sent,            \* ghost: per feed, generation of the last snapshot passed
                     \* to send (0: none yet)
    tick,            \* ghost: what the poller did so far in the current tick
    handler,         \* the request handler serving a mutation, if any
    parse,           \* parse_torrents_response: its locals and its result
    xml,             \* ghost: where in the response the XML reader is
    scgi,            \* send_request: what it frames or unframes, and the result
    req,             \* a request builder: its argument and the documents built
    call,            \* a client operation: its stage and its result
    starred_torrents, \* HashSet<String> behind the RwLock
    starred_writer,  \* the task holding the write guard of the lock, 0: none
    toggle           \* per task in toggle_star: position and locals

vars == << last_torrents, last_stats, torrents_tx, stats_tx, shutdown,
           poller_pc, need_torrents, need_stats, torrents_result, stats_result,
           refresh_pc, refresh_snap, daemon, sse, fetches, sent,
           tick, handler, parse, xml, scgi, req, call,
           starred_torrents, starred_writer, toggle >>

cacheVars == << last_torrents, last_stats, torrents_tx, stats_tx, sent >>
pollerVars == << poller_pc, need_torrents, need_stats, torrents_result,
                 stats_result, tick >>
refreshVars == << refresh_pc, refresh_snap >>
\* The starred set, its lock and the tasks toggling it.
starVars == << starred_torrents, starred_writer, toggle >>
\* The variables of the request builders, the client operations and the
\* starred set.
restVars == << req, call, starVars >>
\* The variables of the response decoder and the ones above.
auxVars == << parse, xml, scgi, restVars >>
\* The variables of the cache, its clients and the handlers.
appVars == << last_torrents, last_stats, torrents_tx, stats_tx, sent,
             shutdown, poller_pc, need_torrents, need_stats, torrents_result,
             stats_result, tick, refresh_pc, refresh_snap, daemon, sse,
             fetches, handler >>

\* ------------------------------------------------- tokio broadcast channel
\* A channel is the ring buffer of Capacity slots and the tail position `pos`
\* (number of values sent so far).  A slot holds the value sent at position
\* slot.pos and `rem`, the number of receivers that have not consumed it yet;
\* the value is released when rem reaches 0.  Initially no slot holds a value.
EmptyChannel ==
    [pos |-> 0,
     buf |-> [i \in 0 .. Capacity - 1 |->
                [pos |-> i - Capacity, rem |-> 0, val |-> None]]]

\* Number of live receivers of a feed: the subscribed SSE streams.
receiver_count(f) ==
    Cardinality({s \in AllSubs : sse[s].pc = "live" /\ sse[s].feed = f})

\* Sender::send(v): with no receiver the value is returned in an Err and the
\* channel is untouched; otherwise v is written at the tail, overwriting the
\* slot Capacity positions back.  It never waits for a receiver.
Send(ch, v, rx_cnt) ==
    IF rx_cnt = 0 THEN ch
    ELSE [pos |-> ch.pos + 1,
          buf |-> [ch.buf EXCEPT ![ch.pos % Capacity] =
                     [pos |-> ch.pos, rem |-> rx_cnt, val |-> Some(v)]]]

\* Receiver::recv for a receiver whose cursor is `next`:
\*   "value"  the slot still holds position next,
\*   "empty"  nothing has been sent at position next yet,
\*   "lagged" the slot was overwritten: position next is lost.
RecvKind(ch, next) ==
    LET slot == ch.buf[next % Capacity] IN
    IF slot.pos = next THEN "value"
    ELSE IF slot.pos + Capacity = next THEN "empty"
    ELSE "lagged"

\* The cursor a lagged receiver continues from: the oldest retained position.
LagResume(ch) == ch.pos - Capacity

\* One receiver is done with a slot.
Release(slot) ==
    [slot EXCEPT !.rem = @ - 1, !.val = IF slot.rem = 1 THEN None ELSE @]

\* The channel after the receiver at cursor `next` has consumed its value.
Consumed(ch, next) ==
    [ch EXCEPT !.buf[next % Capacity] = Release(@)]

\* The channel after the receiver at cursor `next` is dropped: it gives up
\* every value it has not consumed.
Dropped(ch, next) ==
    [ch EXCEPT !.buf = [i \in 0 .. Capacity - 1 |->
        IF ch.buf[i].pos >= next /\ ch.buf[i].rem > 0
        THEN Release(ch.buf[i]) ELSE ch.buf[i]]]

Tx(f) == IF f = "torrents" THEN torrents_tx ELSE stats_tx
Latest(f) == IF f = "torrents" THEN last_torrents ELSE last_stats
\* The channel of feed f becomes ch, the other channel is unchanged.
SetTx(f, ch) ==
    /\ torrents_tx' = IF f = "torrents" THEN ch ELSE torrents_tx
    /\ stats_tx' = IF f = "stats" THEN ch ELSE stats_tx

\* The ghost record of a tick: how often each client operation was called and
\* which stores and sends were done, in order.  Here: nothing yet.
NoCalls == [get_torrents |-> 0, get_global_stats |-> 0, steps |-> << >>]

\* A client record: the handler's position, the endpoint, `initial`, the
\* receiver's cursor `next`, and (ghost)
\*   mark    while the handler runs: the generation last published on the
\*           feed when `initial` was read (0: none),
\*   last    generation of the last snapshot delivered to the client (0: none),
\*   missed  the generation last published between the read of `initial`
\*           and the subscription, if any and if not the one read,
\*   lagged  whether the receiver ever reported Lagged.
IdleClient ==
    [pc |-> "idle", feed |-> "torrents", initial |-> None, next |-> 0,
     mark |-> 0, last |-> 0, missed |-> {}, lagged |-> FALSE]

\* The mutating requests (routes.rs: torrent_pause, torrent_resume,
\* torrent_remove, add_torrent).
Mutations == {"pause", "resume", "remove", "add"}

\* The handler record: its position, the operation it serves and (ghost)
\* `mutated`, the number of snapshots fetched for the cache when the daemon
\* applied its mutation (-1: not applied): a snapshot of a later generation
\* reflects the mutation.
IdleHandler == [pc |-> "idle", op |-> "pause", mutated |-> -1]

\* ------------------------------------------------- response decoder: data
\* A decoded value: the string s, a sequence of bytes, and (ghost) the row
\* and the column, counted from 0, of the element whose text it was.  Blank
\* is String::new().
Text(s, r, c) == [s |-> s, row |-> r, col |-> c]
Blank == [s |-> << >>, row |-> 0, col |-> 0]

\* The numbers of scalar elements the rows of a response have: none, a few,
\* one too few, the full arity, and more.
RowLengths == {0, 5, RowArity - 1, RowArity, MaxCols}

\* The text the daemon sends in column c of a row: the flags d.is_active=
\* and d.is_open= are "1", d.is_hash_checking= and d.complete= are "0", the
\* others "x".
DefaultText(c) ==
    IF c \in {6, 7} THEN << 49 >>
    ELSE IF c \in {8, 9, 10} THEN << 48 >> ELSE << 120 >>

\* The row (id, Ubuntu.iso, 1000, 500, 100, 0, 1, 1, 0, 0, empty, 2000) as
\* the decoder collects it.
ExampleRow ==
    << Text(<< 105, 100 >>, 1, 0),
       Text(<< 85, 98, 117, 110, 116, 117, 46, 105, 115, 111 >>, 1, 1),
       Text(<< 49, 48, 48, 48 >>, 1, 2),
       Text(<< 53, 48, 48 >>, 1, 3),
       Text(<< 49, 48, 48 >>, 1, 4),
       Text(<< 48 >>, 1, 5),
       Text(<< 49 >>, 1, 6),
       Text(<< 49 >>, 1, 7),
       Text(<< 48 >>, 1, 8),
       Text(<< 48 >>, 1, 9),
       Blank,
       Text(<< 50, 48, 48, 48 >>, 1, 11) >>

\* Texts a row can hold instead: the empty string, "x", "-", "1x", "5",
\* "-5", and "nan".
RowTexts == { << >>, << 120 >>, << 45 >>, << 49, 120 >>, << 53 >>,
              << 45, 53 >>, << 110, 97, 110 >> }

\* The locals of parse_torrents_response (rtorrent.rs:304-313) and the
\* value it returned; before the call.
NotParsing ==
    [pc |-> "idle", torrents |-> << >>, current_values |-> << >>,
     in_value_tag |-> FALSE, value_collected |-> FALSE, in_array |-> FALSE,
     array_depth |-> 0, result |-> None]

\* What the reader has delivered of the response
\*   <array> (<array> scalar ... scalar </array>)* </array>
\* so far: `at` the place in it, `row` the rows begun, `col` the scalar
\* elements of the current row that are complete, `rows` the number of
\* scalar elements of each complete row, `empties` the elements without
\* text so far, `splits` the text events that were not the first of their
\* element.  The elements value, data, param and the like match no arm
\* of the decoder and are left out.
NoInput == [at |-> "top", row |-> 0, col |-> 0, rows |-> << >>, empties |-> 0,
            splits |-> 0]

\* ------------------------------------------------------ SCGI framing: data
\* Bytes are numbers 0 .. 255, strings are sequences of bytes.
NUL == << 0 >>
CR == << 13 >>
LF == << 10 >>
Colon == << 58 >>
Comma == << 44 >>
CONTENT_LENGTH == << 67, 79, 78, 84, 69, 78, 84, 95, 76, 69, 78, 71, 84, 72 >>
SCGI == << 83, 67, 71, 73 >>
One == << 49 >>
REQUEST_METHOD == << 82, 69, 81, 85, 69, 83, 84, 95, 77, 69, 84, 72, 79, 68 >>
POST == << 80, 79, 83, 84 >>
REQUEST_URI == << 82, 69, 81, 85, 69, 83, 84, 95, 85, 82, 73 >>
RPC2 == << 47, 82, 80, 67, 50 >>

\* The characters of a payload, each the bytes of its UTF-8 encoding: "<",
\* "," and the two-byte character U+00E9.
Chars == { << 60 >>, Comma, << 195, 169 >> }
\* The bytes of a response: CR, LF, a letter and a byte that no UTF-8 text
\* contains.
ResponseBytes == { 13, 10, 120, 255 }

\* A sequence of sequences joined into one.
RECURSIVE Flatten(_)
Flatten(ss) == IF ss = << >> THEN << >> ELSE Head(ss) \o Flatten(Tail(ss))

\* The sequences over S of length n, and of length at most n.
RECURSIVE SeqsOfLen(_, _)
SeqsOfLen(S, n) ==
    IF n = 0 THEN { << >> }
    ELSE { Append(q, x) : q \in SeqsOfLen(S, n - 1), x \in S }
SeqsUpTo(S, n) == UNION { SeqsOfLen(S, i) : i \in 0 .. n }

\* send_request before it has anything to frame or unframe.
NoRequest == [op |-> "none", input |-> << >>, output |-> << >>]

\* ---------------------------------------------- request builders: the texts
\* The text of build_single_param_xml around the method and the parameter
\* (rtorrent.rs:267-273).
SingleParam ==
    [head |->
        << 60, 63, 120, 109, 108, 32, 118, 101, 114, 115, 105, 111, 110, 61,
           34, 49, 46, 48, 34, 63, 62, 10, 60, 109, 101, 116, 104, 111, 100,
           67, 97, 108, 108, 62, 10, 60, 109, 101, 116, 104, 111, 100, 78,
           97, 109, 101, 62 >>,
     mid |->
        << 60, 47, 109, 101, 116, 104, 111, 100, 78, 97, 109, 101, 62, 10,
           60, 112, 97, 114, 97, 109, 115, 62, 10, 60, 112, 97, 114, 97,
           109, 62, 60, 118, 97, 108, 117, 101, 62, 60, 115, 116, 114, 105,
           110, 103, 62 >>,
     tail |->
        << 60, 47, 115, 116, 114, 105, 110, 103, 62, 60, 47, 118, 97, 108,
           117, 101, 62, 60, 47, 112, 97, 114, 97, 109, 62, 10, 60, 47, 112,
           97, 114, 97, 109, 115, 62, 10, 60, 47, 109, 101, 116, 104, 111,
           100, 67, 97, 108, 108, 62 >>]
\* The text of add_torrent_url before the URL (rtorrent.rs:542-547); after
\* it the text is the one of build_single_param_xml.
LoadStartHead ==
    << 60, 63, 120, 109, 108, 32, 118, 101, 114, 115, 105, 111, 110, 61, 34,
       49, 46, 48, 34, 63, 62, 10, 60, 109, 101, 116, 104, 111, 100, 67, 97,
       108, 108, 62, 10, 60, 109, 101, 116, 104, 111, 100, 78, 97, 109, 101,
       62, 108, 111, 97, 100, 46, 115, 116, 97, 114, 116, 60, 47, 109, 101,
       116, 104, 111, 100, 78, 97, 109, 101, 62, 10, 60, 112, 97, 114, 97,
       109, 115, 62, 10, 60, 112, 97, 114, 97, 109, 62, 60, 118, 97, 108,
       117, 101, 62, 60, 115, 116, 114, 105, 110, 103, 62, 60, 47, 115, 116,
       114, 105, 110, 103, 62, 60, 47, 118, 97, 108, 117, 101, 62, 60, 47,
       112, 97, 114, 97, 109, 62, 10, 60, 112, 97, 114, 97, 109, 62, 60,
       118, 97, 108, 117, 101, 62, 60, 115, 116, 114, 105, 110, 103, 62 >>
\* The text build_multicall_xml writes around the method and the parameters
\* (rtorrent.rs:209-251).
Multicall ==
    [head |->
        << 60, 63, 120, 109, 108, 32, 118, 101, 114, 115, 105, 111, 110, 61,
           34, 49, 46, 48, 34, 63, 62, 10, 60, 109, 101, 116, 104, 111, 100,
           67, 97, 108, 108, 62, 60, 109, 101, 116, 104, 111, 100, 78, 97,
           109, 101, 62 >>,
     mid |->
        << 60, 47, 109, 101, 116, 104, 111, 100, 78, 97, 109, 101, 62, 60,
           112, 97, 114, 97, 109, 115, 62, 60, 112, 97, 114, 97, 109, 62,
           60, 118, 97, 108, 117, 101, 62, 60, 115, 116, 114, 105, 110, 103,
           62, 60, 47, 115, 116, 114, 105, 110, 103, 62, 60, 47, 118, 97,
           108, 117, 101, 62, 60, 47, 112, 97, 114, 97, 109, 62, 60, 112,
           97, 114, 97, 109, 62, 60, 118, 97, 108, 117, 101, 62, 60, 115,
           116, 114, 105, 110, 103, 62, 109, 97, 105, 110, 60, 47, 115, 116,
           114, 105, 110, 103, 62, 60, 47, 118, 97, 108, 117, 101, 62, 60,
           47, 112, 97, 114, 97, 109, 62 >>,
     open |->
        << 60, 112, 97, 114, 97, 109, 62, 60, 118, 97, 108, 117, 101, 62,
           60, 115, 116, 114, 105, 110, 103, 62 >>,
     close |->
        << 60, 47, 115, 116, 114, 105, 110, 103, 62, 60, 47, 118, 97, 108,
           117, 101, 62, 60, 47, 112, 97, 114, 97, 109, 62 >>,
     tail |->
        << 60, 47, 112, 97, 114, 97, 109, 115, 62, 60, 47, 109, 101, 116,
           104, 111, 100, 67, 97, 108, 108, 62 >>]
\* The method names: d.stop, d.close, d.open, d.start, d.erase and
\* d.multicall2.
Method ==
    [stop |->
        << 100, 46, 115, 116, 111, 112 >>,
     close |->
        << 100, 46, 99, 108, 111, 115, 101 >>,
     open |->
        << 100, 46, 111, 112, 101, 110 >>,
     start |->
        << 100, 46, 115, 116, 97, 114, 116 >>,
     erase |->
        << 100, 46, 101, 114, 97, 115, 101 >>,
     multicall2 |->
        << 100, 46, 109, 117, 108, 116, 105, 99, 97, 108, 108, 50 >>]

\* ---------------------------------------------------- request builders: data
\* The characters of an identifier or a URL: the five reserved characters
\* & < > " ' and a letter.
Reserved == { 38, 60, 62, 34, 39 }
ParamChars == Reserved \cup { 97 }

\* The entities of the reserved characters (rtorrent.rs:535-539): &amp;,
\* &lt;, &gt;, &quot; and &apos;.
Entity(c) ==
    IF c = 38 THEN << 38, 97, 109, 112, 59 >>
    ELSE IF c = 60 THEN << 38, 108, 116, 59 >>
    ELSE IF c = 62 THEN << 38, 103, 116, 59 >>
    ELSE IF c = 34 THEN << 38, 113, 117, 111, 116, 59 >>
    ELSE << 38, 97, 112, 111, 115, 59 >>

\* The operations that build a request document around a string.
BuildOps == { "pause_torrent", "resume_torrent", "remove_torrent",
              "add_torrent_url", "build_multicall_xml" }

\* The field specifiers get_torrents asks for (rtorrent.rs:282-293):
\* d.hash=, d.name=, d.size_bytes=, d.completed_bytes=, d.down.rate=,
\* d.up.rate=, d.is_active=, d.is_open=, d.is_hash_checking=, d.complete=,
\* d.message=, d.ratio=.
Specifiers ==
    << << 100, 46, 104, 97, 115, 104, 61 >>,
       << 100, 46, 110, 97, 109, 101, 61 >>,
       << 100, 46, 115, 105, 122, 101, 95, 98, 121, 116, 101, 115, 61
       >>,
       << 100, 46, 99, 111, 109, 112, 108, 101, 116, 101, 100, 95, 98,
       121, 116, 101, 115, 61 >>,
       << 100, 46, 100, 111, 119, 110, 46, 114, 97, 116, 101, 61 >>,
       << 100, 46, 117, 112, 46, 114, 97, 116, 101, 61 >>,
       << 100, 46, 105, 115, 95, 97, 99, 116, 105, 118, 101, 61 >>,
       << 100, 46, 105, 115, 95, 111, 112, 101, 110, 61 >>,
       << 100, 46, 105, 115, 95, 104, 97, 115, 104, 95, 99, 104, 101,
       99, 107, 105, 110, 103, 61 >>,
       << 100, 46, 99, 111, 109, 112, 108, 101, 116, 101, 61 >>,
       << 100, 46, 109, 101, 115, 115, 97, 103, 101, 61 >>,
       << 100, 46, 114, 97, 116, 105, 111, 61 >> >>

\* The parameter lists build_multicall_xml is given: up to MaxSpecifiers of
\* three of the specifiers and the string "a&".
ParamLists ==
    SeqsUpTo({ Specifiers[1], Specifiers[2], Specifiers[12], << 97, 38 >> },
             MaxSpecifiers)

\* No builder has been called.
NoBuild == [op |-> "none", input |-> << >>, output |-> << >>, done |-> FALSE]

\* ------------------------------------------------ client operations: data
\* The operations of RtorrentClient, the number of requests each one sends,
\* and the ones that decode the responses.
ClientOps == { "get_torrents", "get_global_stats", "get_client_version",
               "pause_torrent", "resume_torrent", "remove_torrent",
               "add_torrent_url", "add_torrent_file" }
RequestsOf(op) ==
    IF op \in { "get_global_stats", "pause_torrent", "resume_torrent" }
    THEN 2 ELSE 1
Decodes(op) ==
    op \in { "get_torrents", "get_global_stats", "get_client_version" }

\* The method of request n of an operation (rtorrent.rs:279-280, 427, 432,
\* 478, 510-512, 518-520, 526, 544, 564).
MethodOf(op, n) ==
    IF op = "get_torrents" THEN "d.multicall2"
    ELSE IF op = "get_global_stats"
    THEN (IF n = 1 THEN "throttle.global_down.rate"
          ELSE "throttle.global_up.rate")
    ELSE IF op = "get_client_version" THEN "system.client_version"
    ELSE IF op = "pause_torrent" THEN (IF n = 1 THEN "d.stop" ELSE "d.close")
    ELSE IF op = "resume_torrent" THEN (IF n = 1 THEN "d.open" ELSE "d.start")
    ELSE IF op = "remove_torrent" THEN "d.erase"
    ELSE IF op = "add_torrent_url" THEN "load.start"
    ELSE "load.raw_start"

\* The body of a response: one the decoder of the operation reads its value
\* from, or one in which the reader finds an error before any value.
Bodies == { "decodable", "undecodable" }
\* The bodies an operation that does not decode its responses can read:
\* also a fault document and an empty body.
BodiesRead == Bodies \cup { "fault", "empty" }
\* The rates a decodable response reports.
Rates == { 0, 3, 5 }

\* A result: Ok(value) or Err(kind).
Ok(value) == [ok |-> TRUE, kind |-> "none", value |-> value]
Err(kind) == [ok |-> FALSE, kind |-> kind, value |-> << >>]

\* A client operation: the operation, its position, the request it is at,
\* the body read, the rates decoded so far, the result and (ghost) the
\* stages that failed so far, the methods of the requests begun, the number
\* of connections asked for and the bodies read.
NoCall == [op |-> "none", pc |-> "idle", request |-> 0, body |-> "none",
           rates |-> << >>, result |-> None, failed |-> << >>,
           methods |-> << >>, connects |-> 0, bodies |-> << >>]

\* ------------------------------------------------------- starred set: data
\* The tasks that can be in toggle_star at the same time, and the
\* identifiers they toggle.
Tasks == { 1, 2 }
Hashes == { "h1", "h2" }
\* A task outside toggle_star; inside, `hash` is the argument, `found` the
\* value of starred.contains(hash) and `ret` the value to return.
IdleToggle == [pc |-> "idle", hash |-> "h1", found |-> FALSE, ret |-> FALSE]

\* The request builders, the client and the starred set before any use
\* (state.rs:31 for the starred set).
InitStars ==
    /\ starred_torrents = {}
    /\ starred_writer = 0
    /\ toggle = [p \in Tasks |-> IdleToggle]

InitRest ==
    /\ req = NoBuild
    /\ call = NoCall
    /\ InitStars

\* ------------------------------------------------------------------- Init
\* The state when AppState::new has returned (state.rs:24-44): both slots
\* empty, both channels empty and without receiver (_torrents_rx and _stats_rx
\* are dropped on return), the poller spawned and in its select!.
InitApp ==
    /\ last_torrents = None
    /\ last_stats = None
    /\ torrents_tx = EmptyChannel
    /\ stats_tx = EmptyChannel
    /\ shutdown = FALSE
    /\ poller_pc = "select"
    /\ need_torrents = FALSE
    /\ need_stats = FALSE
    /\ torrents_result = None
    /\ stats_result = None
    /\ refresh_pc = "idle"
    /\ refresh_snap = None
    /\ sse = [s \in AllSubs |-> IdleClient]
    /\ daemon = 1
    /\ fetches = 0
    /\ sent = [f \in Feeds |-> 0]
    /\ tick = NoCalls
    /\ handler = IdleHandler

Init ==
    /\ InitApp
    /\ parse = NotParsing
    /\ xml = NoInput
    /\ scgi = NoRequest
    /\ InitRest

\* ----------------------------------------------------------------- poller
\* get_torrents calls in flight (each will take one generation).
InFlight ==
    (IF poller_pc = "get_torrents" THEN 1 ELSE 0)
      + (IF refresh_pc = "get_torrents" THEN 1 ELSE 0)

\* What a successful get_torrents returns: the daemon's current list, tagged
\* (ghost) with its generation, the rank of the fetch among all fetches.
Fetched == [gen |-> fetches + 1, torrents |-> DaemonLists[daemon]]
DaemonNext == (daemon % Len(DaemonLists)) + 1

\* select! takes the ticker branch (state.rs:104-109).  The ticker may be
\* ready whenever the loop is in select!, also when the shutdown branch is
\* ready too: select! then picks either.  The two receiver counts are read
\* (two adjacent loads) and get_torrents is called.
PollerTick(maxf) ==
    /\ poller_pc = "select"
    /\ fetches + InFlight < maxf
    /\ need_torrents' = (receiver_count("torrents") > 0)
    /\ need_stats' = (receiver_count("stats") > 0)
    /\ poller_pc' = "get_torrents"
    /\ tick' = [NoCalls EXCEPT !.get_torrents = 1]
    /\ UNCHANGED << auxVars, handler, cacheVars, shutdown, torrents_result,
                    stats_result, refreshVars, sse, fetches, daemon >>

\* A poller that calls get_global_stats in every tick, subscribers or not.
AfterItemsAlways(t) ==
    [pc |-> "get_global_stats", tick |-> [t EXCEPT !.get_global_stats = @ + 1]]

\* Where the tick continues after the item part (state.rs:119, 129): with
\* need_stats, get_global_stats is called.  t is the tick's ghost record.
AfterItems(t) ==
    IF need_stats
    THEN [pc |-> "get_global_stats",
          tick |-> [t EXCEPT !.get_global_stats = @ + 1]]
    ELSE [pc |-> "tick_end", tick |-> t]

Did(t, step) == [t EXCEPT !.steps = Append(@, step)]

\* get_torrents returns Ok(torrents) (state.rs:109-112).
PollerGetTorrentsOk ==
    /\ poller_pc = "get_torrents"
    /\ torrents_result' = Some(Fetched)
    /\ fetches' = fetches + 1
    /\ daemon' = DaemonNext
    /\ poller_pc' = IF need_torrents THEN "store_torrents"
                                     ELSE AfterItems(tick).pc
    /\ tick' = IF need_torrents THEN tick ELSE AfterItems(tick).tick
    /\ UNCHANGED << auxVars, handler, cacheVars, shutdown, need_torrents, need_stats,
                    stats_result, refreshVars, sse >>

\* A poller that invalidates the 'latest' item slot when the fetch fails.
PollerGetTorrentsErrInvalidate ==
    /\ poller_pc = "get_torrents"
    /\ torrents_result' = None
    /\ last_torrents' = None
    /\ poller_pc' = "tick_end"
    /\ UNCHANGED << auxVars, handler, last_stats, torrents_tx, stats_tx, sent, shutdown,
                    need_torrents, need_stats, stats_result, tick,
                    refreshVars, sse, fetches, daemon >>

\* A poller that leaves its loop when the fetch fails.
PollerGetTorrentsErrExit ==
    /\ poller_pc = "get_torrents"
    /\ torrents_result' = None
    /\ poller_pc' = "exited"
    /\ UNCHANGED << auxVars, handler, cacheVars, shutdown, need_torrents, need_stats,
                    stats_result, tick, refreshVars, sse, fetches,
                    daemon >>

\* get_torrents returns Err: logged, the tick is over (state.rs:145-147).
PollerGetTorrentsErr ==
    /\ poller_pc = "get_torrents"
    /\ torrents_result' = None
    /\ poller_pc' = "tick_end"
    /\ UNCHANGED << auxVars, handler, cacheVars, shutdown, need_torrents, need_stats,
                    stats_result, tick, refreshVars, sse, fetches,
                    daemon >>

\* *last_torrents.write().await = Some(snapshot.clone()) (state.rs:113-114)
PollerStoreTorrents ==
    /\ poller_pc = "store_torrents"
    /\ last_torrents' = torrents_result
    /\ poller_pc' = "send_torrents"
    /\ tick' = Did(tick, "store_torrents")
    /\ UNCHANGED << auxVars, handler, last_stats, torrents_tx, stats_tx, sent, shutdown,
                    need_torrents, need_stats, torrents_result, stats_result,
                    refreshVars, sse, fetches, daemon >>

\* let _ = torrents_tx.send(snapshot) (state.rs:115), then state.rs:119.
PollerSendTorrents ==
    /\ poller_pc = "send_torrents"
    /\ torrents_tx' = Send(torrents_tx, Unwrap(torrents_result),
                           receiver_count("torrents"))
    /\ sent' = [sent EXCEPT !["torrents"] = Unwrap(torrents_result).gen]
    /\ poller_pc' = AfterItems(tick).pc
    /\ tick' = AfterItems(Did(tick, "send_torrents")).tick
    /\ UNCHANGED << auxVars, handler, last_torrents, last_stats, stats_tx, shutdown,
                    need_torrents, need_stats, torrents_result, stats_result,
                    refreshVars, sse, fetches, daemon >>

Sum(seq, field) ==
    LET RECURSIVE S(_)
        S(i) == IF i = 0 THEN 0 ELSE seq[i][field] + S(i - 1)
    IN S(Len(seq))

\* What get_global_stats returns when its two requests succeed
\* (rtorrent.rs:425-449), the daemon reporting the rates down and up.
GlobalStats(down, up) ==
    [down_rate |-> down, up_rate |-> up,
     free_disk_space |-> FreeDiskDefault, active_peers |-> 0]

\* A poller that keeps the rates get_global_stats returned.
DerivedStatsGlobalRates(stats, snap) ==
    LET torrents == snap.torrents
        free_disk_space ==
            IF torrents = << >> THEN 0 ELSE torrents[1].free_disk_space
    IN [gen |-> snap.gen,
        down_rate |-> stats.down_rate,
        up_rate |-> stats.up_rate,
        free_disk_space |-> IF free_disk_space > 0 THEN free_disk_space
                             ELSE stats.free_disk_space,
        active_peers |-> stats.active_peers]

\* The GlobalStats the poller stores, from the value get_global_stats
\* returned and the torrents of this tick (state.rs:120-136); gen (ghost) is
\* the generation of those torrents.
DerivedStats(stats, snap) ==
    LET torrents == snap.torrents
        free_disk_space ==
            IF torrents = << >> THEN 0 ELSE torrents[1].free_disk_space
    IN [gen |-> snap.gen,
        down_rate |-> Sum(torrents, "down_rate"),
        up_rate |-> Sum(torrents, "up_rate"),
        free_disk_space |-> IF free_disk_space > 0 THEN free_disk_space
                             ELSE stats.free_disk_space,
        active_peers |-> stats.active_peers]

\* get_global_stats returns Ok(stats) and the poller overwrites the rates
\* (state.rs:129-136).
PollerGlobalStatsOk ==
    /\ poller_pc = "get_global_stats"
    /\ \E down \in GlobalRates, up \in GlobalRates :
         stats_result' = Some(DerivedStats(GlobalStats(down, up),
                                           Unwrap(torrents_result)))
    /\ poller_pc' = "store_stats"
    /\ UNCHANGED << auxVars, handler, cacheVars, shutdown, need_torrents, need_stats,
                    torrents_result, tick, refreshVars, sse, fetches,
                    daemon >>

\* get_global_stats returns Err (one of its requests failed): logged
\* (rtorrent.rs:428, 433; state.rs:140-142).
PollerGlobalStatsErr ==
    /\ poller_pc = "get_global_stats"
    /\ poller_pc' = "tick_end"
    /\ UNCHANGED << auxVars, handler, cacheVars, shutdown, need_torrents, need_stats,
                    torrents_result, stats_result, tick, refreshVars,
                    sse, fetches, daemon >>

\* *last_stats.write().await = Some(snapshot.clone()) (state.rs:137)
PollerStoreStats ==
    /\ poller_pc = "store_stats"
    /\ last_stats' = stats_result
    /\ poller_pc' = "send_stats"
    /\ tick' = Did(tick, "store_stats")
    /\ UNCHANGED << auxVars, handler, last_torrents, torrents_tx, stats_tx, sent, shutdown,
                    need_torrents, need_stats, torrents_result, stats_result,
                    refreshVars, sse, fetches, daemon >>

\* let _ = stats_tx.send(snapshot) (state.rs:138)
PollerSendStats ==
    /\ poller_pc = "send_stats"
    /\ stats_tx' = Send(stats_tx, Unwrap(stats_result), receiver_count("stats"))
    /\ sent' = [sent EXCEPT !["stats"] = Unwrap(stats_result).gen]
    /\ poller_pc' = "tick_end"
    /\ tick' = Did(tick, "send_stats")
    /\ UNCHANGED << auxVars, handler, last_torrents, last_stats, torrents_tx, shutdown,
                    need_torrents, need_stats, torrents_result, stats_result,
                    refreshVars, sse, fetches, daemon >>

\* The ticker arm is left (state.rs:148): its locals go out of scope and the
\* loop is back in select!.
PollerTickEnd ==
    /\ poller_pc = "tick_end"
    /\ poller_pc' = "select"
    /\ need_torrents' = FALSE
    /\ need_stats' = FALSE
    /\ torrents_result' = None
    /\ stats_result' = None
    /\ tick' = NoCalls
    /\ UNCHANGED << auxVars, handler, cacheVars, shutdown, refreshVars, sse, fetches,
                    daemon >>

\* A poller whose shutdown branch goes round the loop instead of breaking.
PollerShutdownContinue ==
    /\ poller_pc = "select"
    /\ shutdown
    /\ poller_pc' = "select"
    /\ UNCHANGED << auxVars, handler, cacheVars, shutdown, need_torrents, need_stats,
                    torrents_result, stats_result, tick, refreshVars,
                    sse, fetches, daemon >>

\* select! takes the shutdown branch (state.rs:149-156): changed() resolves
\* once the value was sent (or the sender dropped) and the loop breaks.
PollerShutdown ==
    /\ poller_pc = "select"
    /\ shutdown
    /\ poller_pc' = "exited"
    /\ UNCHANGED << auxVars, handler, cacheVars, shutdown, need_torrents, need_stats,
                    torrents_result, stats_result, tick, refreshVars,
                    sse, fetches, daemon >>

\* ---------------------------------------------------------- refresh_cache
\* A request-serving task calls refresh_cache (state.rs:79-80): it holds the
\* AppState, which is therefore not dropped.
RefreshCall(maxf) ==
    /\ refresh_pc = "idle"
    /\ ~shutdown
    /\ fetches + InFlight < maxf
    /\ refresh_pc' = "get_torrents"
    /\ UNCHANGED << auxVars, handler, cacheVars, shutdown, pollerVars, refresh_snap,
                    sse, fetches, daemon >>

\* A refresh_cache that stores and sends only when the item feed has a
\* receiver, the way the poller's tick does.
RefreshGetTorrentsOkGated ==
    /\ refresh_pc = "get_torrents"
    /\ refresh_snap' = IF receiver_count("torrents") > 0 THEN Some(Fetched)
                                                          ELSE None
    /\ fetches' = fetches + 1
    /\ daemon' = DaemonNext
    /\ refresh_pc' = IF receiver_count("torrents") > 0 THEN "store" ELSE "idle"
    /\ UNCHANGED << auxVars, handler, cacheVars, shutdown, pollerVars, sse >>

\* get_torrents returns Ok(torrents) (state.rs:81-82).
RefreshGetTorrentsOk ==
    /\ refresh_pc = "get_torrents"
    /\ refresh_snap' = Some(Fetched)
    /\ fetches' = fetches + 1
    /\ daemon' = DaemonNext
    /\ refresh_pc' = "store"
    /\ UNCHANGED << auxVars, handler, cacheVars, shutdown, pollerVars, sse >>

\* get_torrents returns Err: logged (state.rs:86-88).
RefreshGetTorrentsErr ==
    /\ refresh_pc = "get_torrents"
    /\ refresh_pc' = "idle"
    /\ UNCHANGED << auxVars, handler, cacheVars, shutdown, pollerVars, refresh_snap,
                    sse, fetches, daemon >>

\* *self.last_torrents.write().await = Some(snapshot.clone()) (state.rs:83)
RefreshStore ==
    /\ refresh_pc = "store"
    /\ last_torrents' = refresh_snap
    /\ refresh_pc' = "send"
    /\ UNCHANGED << auxVars, handler, last_stats, torrents_tx, stats_tx, sent, shutdown,
                    pollerVars, refresh_snap, sse, fetches, daemon >>

\* let _ = self.torrents_tx.send(snapshot) (state.rs:84)
RefreshSend ==
    /\ refresh_pc = "send"
    /\ torrents_tx' = Send(torrents_tx, Unwrap(refresh_snap),
                           receiver_count("torrents"))
    /\ sent' = [sent EXCEPT !["torrents"] = Unwrap(refresh_snap).gen]
    /\ refresh_pc' = "idle"
    /\ refresh_snap' = None
    /\ UNCHANGED << auxVars, handler, last_torrents, last_stats, stats_tx, shutdown,
                    pollerVars, sse, fetches, daemon >>

\* ------------------------------------------------------------ SSE clients
\* torrent_events / stats_events starts: `initial` is read from the 'latest'
\* slot (sse.rs:33, 127).
SubConnect(s, f) ==
    /\ f \in ClientFeeds(s)
    /\ sse[s].pc = "idle"
    /\ ~shutdown
    /\ sse' = [sse EXCEPT ![s] = [IdleClient EXCEPT
                 !.pc = "read", !.feed = f, !.initial = Latest(f),
                 !.mark = sent[f]]]
    /\ UNCHANGED << auxVars, handler, cacheVars, shutdown, pollerVars, refreshVars,
                    fetches, daemon >>

InitialGen(c) == IF IsSome(c.initial) THEN Unwrap(c.initial).gen ELSE 0

\* The handler subscribes (sse.rs:44, 136; state.rs:61-67): the receiver
\* starts at the tail of the channel.  The stream yields `initial` first
\* (sse.rs:65, 147).
SubSubscribe(s) ==
    LET c == sse[s]
    IN
    /\ c.pc = "read"
    /\ sse' = [sse EXCEPT ![s] = [c EXCEPT
                 !.pc = "live",
                 !.next = Tx(c.feed).pos,
                 !.mark = 0,
                 !.last = InitialGen(c),
                 !.missed = {sent[c.feed]} \ {c.mark, InitialGen(c)}]]
    /\ UNCHANGED << auxVars, handler, cacheVars, shutdown, pollerVars, refreshVars,
                    fetches, daemon >>

\* The stream polls its receiver (sse.rs:51-60, 137-144): a value is rendered
\* and delivered; Lagged is filtered out and the receiver has moved to the
\* oldest retained value.
SubRecv(s) ==
    LET c == sse[s]
        ch == Tx(c.feed)
        kind == RecvKind(ch, c.next)
    IN
    /\ c.pc = "live"
    /\ kind # "empty"
    /\ sse' = [sse EXCEPT ![s] =
                 IF kind = "value"
                 THEN [c EXCEPT !.next = @ + 1,
                         !.last = Unwrap(ch.buf[c.next % Capacity].val).gen]
                 ELSE [c EXCEPT !.next = LagResume(ch), !.lagged = TRUE]]
    /\ SetTx(c.feed, IF kind = "value" THEN Consumed(ch, c.next) ELSE ch)
    /\ UNCHANGED << auxVars, handler, last_torrents, last_stats, sent, shutdown,
                    pollerVars, refreshVars, fetches, daemon >>

\* The client goes away: the stream and its receiver are dropped.
SubDisconnect(s) ==
    /\ sse[s].pc = "live"
    /\ sse' = [sse EXCEPT ![s] = IdleClient]
    /\ SetTx(sse[s].feed, Dropped(Tx(sse[s].feed), sse[s].next))
    /\ UNCHANGED << auxVars, handler, last_torrents, last_stats, sent, shutdown,
                    pollerVars, refreshVars, fetches, daemon >>

\* --------------------------------------------------------------- handlers
\* A mutating request arrives (routes.rs:234-238, 251-255, 268-272, 305-325):
\* the handler, holding the AppState, calls the client operation.
HandlerCall(op) ==
    /\ handler.pc = "idle"
    /\ ~shutdown
    /\ handler' = [pc |-> "mutate", op |-> op, mutated |-> -1]
    /\ UNCHANGED << auxVars, cacheVars, shutdown, pollerVars, refreshVars,
                    sse, fetches, daemon >>

\* The client operation returns Ok: the daemon has changed its list.
\* torrent_remove answers at once (routes.rs:272-273); the other handlers go
\* on to fetch the list for their response (routes.rs:241, 258, 343).
HandlerMutateOk ==
    /\ handler.pc = "mutate"
    /\ daemon' = DaemonNext
    /\ handler' = [handler EXCEPT
                     !.pc = IF handler.op = "remove" THEN "respond"
                                                     ELSE "get_torrents",
                     !.mutated = fetches]
    /\ UNCHANGED << auxVars, cacheVars, shutdown, pollerVars, refreshVars,
                    sse, fetches >>

\* The client operation returns Err: the handler returns the error
\* (routes.rs:238, 255, 272, 319-322, 329-332).
HandlerMutateErr ==
    /\ handler.pc = "mutate"
    /\ handler' = IdleHandler
    /\ UNCHANGED << auxVars, cacheVars, shutdown, pollerVars, refreshVars,
                    sse, fetches, daemon >>

\* The handler returns its response, for all but torrent_remove once
\* state.rtorrent.get_torrents() has returned, Ok or Err, and the result is
\* rendered (routes.rs:241-249, 258-266, 273, 343-357).  Neither the 'latest'
\* slot nor the feed is touched.
HandlerRespond ==
    /\ handler.pc \in {"get_torrents", "respond"}
    /\ handler' = IdleHandler
    /\ UNCHANGED << auxVars, cacheVars, shutdown, pollerVars, refreshVars,
                    sse, fetches, daemon >>

\* ------------------------------------------------------------------- Drop
\* The last Arc<AppState> is dropped (state.rs:163-167): no handler is
\* running with the state, and no torrent stream (whose closure holds the
\* Arc, sse.rs:45) is alive.
DropAppState ==
    /\ ~shutdown
    /\ refresh_pc = "idle"
    /\ handler.pc = "idle"
    /\ \A s \in AllSubs :
         /\ sse[s].pc # "read"
         /\ ~(sse[s].pc = "live" /\ sse[s].feed = "torrents")
    /\ shutdown' = TRUE
    /\ UNCHANGED << auxVars, handler, cacheVars, pollerVars, refreshVars, sse, fetches, daemon >>

\* ------------------------------------------------------ response decoder
\* The number the decimal digits write, as i64::from_str accumulates it.
RECURSIVE FromDigits(_)
FromDigits(digits) ==
    IF digits = << >> THEN 0
    ELSE 10 * FromDigits(SubSeq(digits, 1, Len(digits) - 1))
         + (digits[Len(digits)] - 48)

\* A parse that reads the digits a string begins with.
ParseLeadingDigits(v) ==
    LET ends == { n \in 0 .. Len(v.s) :
                    \A i \in 1 .. n : v.s[i] \in 48 .. 57 }
        n == CHOOSE m \in ends : \A k \in ends : k <= m
    IN FromDigits(SubSeq(v.s, 1, n))

\* str::parse::<i64>().unwrap_or(0) (rtorrent.rs:340-343, 362-365): an
\* optional sign and at least one digit, nothing else; any other string is
\* an Err and gives 0.  The strings here are too short to overflow.
ParseI64(v) ==
    LET signed == v.s # << >> /\ v.s[1] \in { 43, 45 }
        digits == IF signed THEN Tail(v.s) ELSE v.s
    IN IF digits # << >> /\ \A i \in 1 .. Len(digits) : digits[i] \in 48 .. 57
       THEN (IF signed /\ v.s[1] = 45 THEN -1 ELSE 1) * FromDigits(digits)
       ELSE 0

\* An f64 that is a whole number of thousandths, and the two f64 that are
\* not finite numbers.
Finite(n) == [class |-> "finite", thousandths |-> n]
NaN == [class |-> "nan", thousandths |-> 0]
Infinite(negative) ==
    [class |-> IF negative THEN "-inf" ELSE "inf", thousandths |-> 0]

\* The string is the word, in any case of its letters.
IsWord(str, word) ==
    /\ Len(str) = Len(word)
    /\ \A i \in 1 .. Len(word) : str[i] \in { word[i], word[i] - 32 }

\* str::parse::<f64>().unwrap_or(0.0) / 1000.0 (rtorrent.rs:371) for the
\* strings without '.' and without exponent: after an optional sign, "nan",
\* "inf" and "infinity" parse to the f64 of that name, digits parse to
\* their integer, and any other string is an Err and gives 0.0.  The value
\* parsed is kept as the number of thousandths of the ratio.
ParseF64(v) ==
    LET signed == v.s # << >> /\ v.s[1] \in { 43, 45 }
        body == IF signed THEN Tail(v.s) ELSE v.s
    IN IF IsWord(body, << 110, 97, 110 >>) THEN NaN
       ELSE IF \/ IsWord(body, << 105, 110, 102 >>)
               \/ IsWord(body, << 105, 110, 102, 105, 110, 105, 116, 121 >>)
            THEN Infinite(signed /\ v.s[1] = 45)
       ELSE Finite(ParseI64(v))

\* A state derivation that looks at the message before the hashing flag.
StateOfMessageFirst(is_active, is_open, is_hashing, complete, message) ==
    IF message.s # << >> /\ message.s # << 48 >> THEN "Error"
    ELSE IF is_hashing THEN "Hashing"
    ELSE IF ~is_active THEN "Paused"
    ELSE IF complete THEN "Seeding"
    ELSE "Downloading"

\* let state = if is_hashing { .. } else if .. (rtorrent.rs:345-357)
StateOf(is_active, is_open, is_hashing, complete, message) ==
    IF is_hashing THEN "Hashing"
    ELSE IF message.s # << >> /\ message.s # << 48 >> THEN "Error"
    ELSE IF ~is_active /\ ~is_open THEN "Paused"
    ELSE IF ~is_active THEN "Paused"
    ELSE IF complete THEN "Seeding"
    ELSE "Downloading"

\* A mapping that takes the size and the completed bytes from each other's
\* position.
MakeTorrentSwapped(v) ==
    LET is_active == ParseI64(v[7]) = 1
        is_open == ParseI64(v[8]) = 1
        is_hashing == ParseI64(v[9]) = 1
        complete == ParseI64(v[10]) = 1
    IN [hash |-> v[1], name |-> v[2],
        size_bytes |-> ParseI64(v[4]), completed_bytes |-> ParseI64(v[3]),
        down_rate |-> ParseI64(v[5]), up_rate |-> ParseI64(v[6]),
        is_active |-> is_active, is_open |-> is_open,
        is_hashing |-> is_hashing, complete |-> complete,
        message |-> v[11], ratio |-> ParseF64(v[12]),
        state |-> StateOf(is_active, is_open, is_hashing, complete, v[11])]

\* The Torrent built from the values of a row (rtorrent.rs:340-376);
\* current_values[i] of the code is v[i + 1].  ratio is kept in thousandths.
MakeTorrent(v) ==
    LET is_active == ParseI64(v[7]) = 1
        is_open == ParseI64(v[8]) = 1
        is_hashing == ParseI64(v[9]) = 1
        complete == ParseI64(v[10]) = 1
    IN [hash |-> v[1], name |-> v[2],
        size_bytes |-> ParseI64(v[3]), completed_bytes |-> ParseI64(v[4]),
        down_rate |-> ParseI64(v[5]), up_rate |-> ParseI64(v[6]),
        is_active |-> is_active, is_open |-> is_open,
        is_hashing |-> is_hashing, complete |-> complete,
        message |-> v[11], ratio |-> ParseF64(v[12]),
        state |-> StateOf(is_active, is_open, is_hashing, complete, v[11])]

\* Torrent::progress_percent (rtorrent.rs:46-52): the quotient of two f64
\* as the fraction num / den.
ProgressPercent(t) ==
    IF t.size_bytes = 0 THEN [num |-> 0, den |-> 1]
    ELSE [num |-> t.completed_bytes * 100, den |-> t.size_bytes]

\* An i64 (rtorrent.rs:23-26) is written in three limbs, hi * Limb^2
\* + mid * Limb + lo with mid and lo in 0 .. Limb - 1 and hi in
\* -HighLimb .. HighLimb - 1: 20 + 22 + 22 = 64 bits, two's complement.
Limb == 2 ^ 22
HighLimb == 2 ^ 19
I64(hi, mid, lo) == [hi |-> hi, mid |-> mid, lo |-> lo]

\* The i64 a record can hold in size_bytes, completed_bytes and down_rate
\* (rtorrent.rs:362-364, any i64 the response writes): i64::MIN, -1, 0, 1,
\* 500, 1000 and i64::MAX.
RecordValues ==
    { I64(-HighLimb, 0, 0), I64(-1, Limb - 1, Limb - 1), I64(0, 0, 0),
      I64(0, 0, 1), I64(0, 0, 500), I64(0, 0, 1000),
      I64(HighLimb - 1, Limb - 1, Limb - 1) }

\* x - y as the integer it is: hi is outside -HighLimb .. HighLimb - 1 when
\* the difference is not an i64.
Sub(x, y) ==
    LET lo == x.lo - y.lo
        mid == x.mid - y.mid - (IF lo < 0 THEN 1 ELSE 0)
        hi == x.hi - y.hi - (IF mid < 0 THEN 1 ELSE 0)
    IN I64(hi, mid % Limb, lo % Limb)

\* Torrent::eta (rtorrent.rs:66-73): "none" for None, "some" for Some(..),
\* "panic" for a panic; the set holds the outcome of each build.  The
\* subtraction panics on overflow where overflow checks are on and wraps
\* where they are off; the division panics in every build when the dividend
\* is i64::MIN and the divisor -1 (the divisor is not 0 here).
Eta(t) ==
    IF t.complete \/ t.down_rate = I64(0, 0, 0) THEN { "none" }
    ELSE LET exact == Sub(t.size_bytes, t.completed_bytes)
             overflows == exact.hi \notin -HighLimb .. HighLimb - 1
             remaining ==
                 [exact EXCEPT
                    !.hi = ((@ + HighLimb) % (2 * HighLimb)) - HighLimb]
             divided ==
                 IF /\ remaining = I64(-HighLimb, 0, 0)
                    /\ t.down_rate = I64(-1, Limb - 1, Limb - 1)
                 THEN "panic" ELSE "some"
         IN IF overflows THEN { "panic", divided } ELSE { divided }

\* parse_torrents_response is called (rtorrent.rs:303-313).
ParseCall ==
    /\ parse.pc = "idle"
    /\ parse' = [NotParsing EXCEPT !.pc = "loop"]
    /\ xml' = NoInput
    /\ UNCHANGED << appVars, scgi, restVars >>

\* A decoder that does not clear the values when a row begins.
ReadStartArrayNoClear ==
    /\ parse.pc = "loop"
    /\ xml.at \in {"top", "outer"}
    /\ xml.at = "outer" => xml.row < MaxRows
    /\ parse' = IF parse.array_depth + 1 = 2
                THEN [parse EXCEPT !.array_depth = @ + 1, !.in_array = TRUE]
                ELSE [parse EXCEPT !.array_depth = @ + 1]
    /\ xml' = IF xml.at = "top" THEN [xml EXCEPT !.at = "outer"]
              ELSE [xml EXCEPT !.at = "row", !.row = @ + 1, !.col = 0]
    /\ UNCHANGED << appVars, scgi, restVars >>

\* Event::Start, name array (rtorrent.rs:319-325).
ReadStartArray ==
    /\ parse.pc = "loop"
    /\ xml.at \in {"top", "outer"}
    /\ xml.at = "outer" => xml.row < MaxRows
    /\ parse' = IF parse.array_depth + 1 = 2
                THEN [parse EXCEPT !.array_depth = @ + 1, !.in_array = TRUE,
                                   !.current_values = << >>]
                ELSE [parse EXCEPT !.array_depth = @ + 1]
    /\ xml' = IF xml.at = "top" THEN [xml EXCEPT !.at = "outer"]
              ELSE [xml EXCEPT !.at = "row", !.row = @ + 1, !.col = 0]
    /\ UNCHANGED << appVars, scgi, restVars >>

\* A decoder that asks for more than RowArity values.
ReadEndArrayOffByOne ==
    /\ parse.pc = "loop"
    /\ xml.at \in {"row", "outer"}
    /\ xml.at = "row" => xml.col \in RowLengths
    /\ parse' = [parse EXCEPT
         !.torrents = IF parse.array_depth = 2
                         /\ Len(parse.current_values) > RowArity
                      THEN Append(@, MakeTorrent(parse.current_values))
                      ELSE @,
         !.array_depth = @ - 1,
         !.in_array = IF parse.array_depth - 1 < 2 THEN FALSE ELSE @]
    /\ xml' = IF xml.at = "row"
              THEN [xml EXCEPT !.at = "outer", !.rows = Append(@, xml.col)]
              ELSE [xml EXCEPT !.at = "end"]
    /\ UNCHANGED << appVars, scgi, restVars >>

\* Event::End, name array (rtorrent.rs:337-383).
ReadEndArray ==
    /\ parse.pc = "loop"
    /\ xml.at \in {"row", "outer"}
    /\ xml.at = "row" => xml.col \in RowLengths
    /\ parse' = [parse EXCEPT
         !.torrents = IF parse.array_depth = 2
                         /\ Len(parse.current_values) >= RowArity
                      THEN Append(@, MakeTorrent(parse.current_values))
                      ELSE @,
         !.array_depth = @ - 1,
         !.in_array = IF parse.array_depth - 1 < 2 THEN FALSE ELSE @]
    /\ xml' = IF xml.at = "row"
              THEN [xml EXCEPT !.at = "outer", !.rows = Append(@, xml.col)]
              ELSE [xml EXCEPT !.at = "end"]
    /\ UNCHANGED << appVars, scgi, restVars >>

\* Event::Start of a scalar element: i4, i8, int, string, double
\* (rtorrent.rs:326-331).
ReadStartScalar ==
    /\ parse.pc = "loop"
    /\ xml.at = "row"
    /\ xml.col < MaxCols
    /\ parse' = IF parse.in_array
                THEN [parse EXCEPT !.in_value_tag = TRUE,
                                   !.value_collected = FALSE]
                ELSE parse
    /\ xml' = [xml EXCEPT !.at = "val"]
    /\ UNCHANGED << appVars, scgi, restVars >>

\* Event::Text (rtorrent.rs:391-396).
ReadText ==
    /\ parse.pc = "loop"
    /\ xml.at = "val"
    /\ parse' = IF parse.in_value_tag /\ parse.in_array
                THEN [parse EXCEPT
                        !.current_values =
                            Append(@, Text(DefaultText(xml.col), xml.row,
                                           xml.col)),
                        !.value_collected = TRUE]
                ELSE parse
    /\ xml' = [xml EXCEPT !.at = "valtext"]
    /\ UNCHANGED << appVars, scgi, restVars >>

\* Event::Text once more inside the same element (rtorrent.rs:391-396): the
\* reader delivers the text of an element in several events when a comment,
\* a CDATA section or a processing instruction stands inside it, as in
\* <string>a<!-- --> b</string>; those events match no arm.
ReadTextAgain ==
    /\ parse.pc = "loop"
    /\ xml.at = "valtext"
    /\ xml.splits < MaxSplit
    /\ parse' = IF parse.in_value_tag /\ parse.in_array
                THEN [parse EXCEPT
                        !.current_values =
                            Append(@, Text(DefaultText(xml.col), xml.row,
                                           xml.col)),
                        !.value_collected = TRUE]
                ELSE parse
    /\ xml' = [xml EXCEPT !.splits = @ + 1]
    /\ UNCHANGED << appVars, scgi, restVars >>

\* A decoder that forgets the placeholder of an element without text.
ReadEndScalarNoPlaceholder ==
    /\ parse.pc = "loop"
    /\ xml.at \in {"val", "valtext"}
    /\ xml.at = "val" => xml.empties < MaxEmpty
    /\ parse' = [parse EXCEPT !.in_value_tag = FALSE,
                              !.value_collected = FALSE]
    /\ xml' = [xml EXCEPT !.at = "row", !.col = @ + 1,
                 !.empties = IF xml.at = "val" THEN @ + 1 ELSE @]
    /\ UNCHANGED << appVars, scgi, restVars >>

\* Event::End of a scalar element (rtorrent.rs:380-387); without a Text
\* event before it the element was empty.
ReadEndScalar ==
    /\ parse.pc = "loop"
    /\ xml.at \in {"val", "valtext"}
    /\ xml.at = "val" => xml.empties < MaxEmpty
    /\ parse' = [parse EXCEPT
         !.current_values =
             IF parse.in_value_tag /\ ~parse.value_collected /\ parse.in_array
             THEN Append(@, Blank) ELSE @,
         !.in_value_tag = FALSE,
         !.value_collected = FALSE]
    /\ xml' = [xml EXCEPT !.at = "row", !.col = @ + 1,
                 !.empties = IF xml.at = "val" THEN @ + 1 ELSE @]
    /\ UNCHANGED << appVars, scgi, restVars >>

\* Event::Empty of a scalar element, e.g. <string/> (rtorrent.rs:397-407).
ReadEmptyScalar ==
    /\ parse.pc = "loop"
    /\ xml.at = "row"
    /\ xml.col < MaxCols
    /\ xml.empties < MaxEmpty
    /\ parse' = IF parse.in_array
                THEN [parse EXCEPT !.current_values = Append(@, Blank)]
                ELSE parse
    /\ xml' = [xml EXCEPT !.col = @ + 1, !.empties = @ + 1]
    /\ UNCHANGED << appVars, scgi, restVars >>

\* Event::Eof: Ok(torrents) is returned (rtorrent.rs:408, 422).  The reader
\* reports the end wherever the input stops.
ReadEof ==
    /\ parse.pc = "loop"
    /\ parse' = [parse EXCEPT !.pc = "done",
                   !.result = Some([ok |-> TRUE, torrents |-> parse.torrents])]
    /\ UNCHANGED << xml, appVars, scgi, restVars >>

\* A decoder that answers a reader error with the rows decoded so far.
ReadErrPartial ==
    /\ parse.pc = "loop"
    /\ parse' = [parse EXCEPT !.pc = "done",
                   !.result = Some([ok |-> TRUE, torrents |-> parse.torrents])]
    /\ xml' = [xml EXCEPT !.at = "error"]
    /\ UNCHANGED << appVars, scgi, restVars >>

\* Err(e) from the reader, at any point: Err(XmlRpcError) is returned
\* (rtorrent.rs:409-411).
ReadErr ==
    /\ parse.pc = "loop"
    /\ parse' = [parse EXCEPT !.pc = "done",
                   !.result = Some([ok |-> FALSE, torrents |-> << >>])]
    /\ xml' = [xml EXCEPT !.at = "error"]
    /\ UNCHANGED << appVars, scgi, restVars >>

\* ----------------------------------------------------------- SCGI framing
\* format!("{}", n) of a usize: the decimal digits of n.
RECURSIVE Decimal(_)
Decimal(n) ==
    IF n < 10 THEN << 48 + n >>
    ELSE Append(Decimal(n \div 10), 48 + (n % 10))

\* A framing that counts the characters of the payload, not its bytes.
FrameCountingChars(payload) ==
    LET xml_body == Flatten(payload)
        content_length == Len(payload)
        headers == CONTENT_LENGTH \o NUL \o Decimal(content_length) \o NUL
                   \o SCGI \o NUL \o One \o NUL
                   \o REQUEST_METHOD \o NUL \o POST \o NUL
                   \o REQUEST_URI \o NUL \o RPC2 \o NUL
    IN Decimal(Len(headers)) \o Colon \o headers \o Comma \o xml_body

\* The request send_request writes for the payload xml_body
\* (rtorrent.rs:173-184); payload is the sequence of its characters.
Frame(payload) ==
    LET xml_body == Flatten(payload)
        content_length == Len(xml_body)
        headers == CONTENT_LENGTH \o NUL \o Decimal(content_length) \o NUL
                   \o SCGI \o NUL \o One \o NUL
                   \o REQUEST_METHOD \o NUL \o POST \o NUL
                   \o REQUEST_URI \o NUL \o RPC2 \o NUL
    IN Decimal(Len(headers)) \o Colon \o headers \o Comma \o xml_body

\* str::find: the index, from 0, of the first occurrence of needle in hay,
\* -1 for None.
Find(hay, needle) ==
    LET hits == { i \in 0 .. Len(hay) - Len(needle) :
                    SubSeq(hay, i + 1, i + Len(needle)) = needle }
    IN IF hits = {} THEN -1
       ELSE CHOOSE i \in hits : \A j \in hits : i <= j

\* The UTF-8 encoding of U+FFFD, the replacement character.
Replacement == << 239, 191, 189 >>

\* String::from_utf8_lossy, for bytes that are ASCII, part of a two-byte
\* character, or never valid in UTF-8: a valid character is kept, every other
\* byte becomes a replacement character.
RECURSIVE FromUtf8Lossy(_)
FromUtf8Lossy(bytes) ==
    IF bytes = << >> THEN << >>
    ELSE IF Head(bytes) < 128
         THEN << Head(bytes) >> \o FromUtf8Lossy(Tail(bytes))
    ELSE IF /\ Head(bytes) \in 194 .. 223
            /\ Len(bytes) >= 2
            /\ bytes[2] \in 128 .. 191
         THEN SubSeq(bytes, 1, 2) \o FromUtf8Lossy(Tail(Tail(bytes)))
    ELSE Replacement \o FromUtf8Lossy(Tail(bytes))

\* An unframing that returns nothing when it finds no separator.
UnframeEmptyWithoutSeparator(response) ==
    LET response_str == FromUtf8Lossy(response)
        crlf == Find(response_str, CR \o LF \o CR \o LF)
        i == IF crlf # -1 THEN crlf ELSE Find(response_str, LF \o LF)
        body_start ==
            IF i = -1 THEN Len(response_str)
            ELSE IF SubSeq(response_str, i + 1, i + 2) = CR \o LF THEN i + 4
            ELSE i + 2
    IN SubSeq(response_str, body_start + 1, Len(response_str))

\* The body send_request returns for a response (rtorrent.rs:196-202).
Unframe(response) ==
    LET response_str == FromUtf8Lossy(response)
        crlf == Find(response_str, CR \o LF \o CR \o LF)
        i == IF crlf # -1 THEN crlf ELSE Find(response_str, LF \o LF)
        body_start ==
            IF i = -1 THEN 0
            ELSE IF SubSeq(response_str, i + 1, i + 2) = CR \o LF THEN i + 4
            ELSE i + 2
    IN SubSeq(response_str, body_start + 1, Len(response_str))

\* send_request builds the request for its payload.
DoFrame ==
    /\ scgi.op = "frame"
    /\ scgi' = [scgi EXCEPT !.op = "framed", !.output = Frame(scgi.input)]
    /\ UNCHANGED << appVars, parse, xml, restVars >>

\* send_request cuts the headers off the response it read.
DoUnframe ==
    /\ scgi.op = "unframe"
    /\ scgi' = [scgi EXCEPT !.op = "unframed",
                            !.output = Unframe(scgi.input)]
    /\ UNCHANGED << appVars, parse, xml, restVars >>

\* ------------------------------------------------------ request builders
\* str::replace(from, to) for a one-character pattern.
RECURSIVE Replace(_, _, _)
Replace(str, from, to) ==
    IF str = << >> THEN << >>
    ELSE (IF Head(str) = from THEN to ELSE << Head(str) >>)
         \o Replace(Tail(str), from, to)

\* quick_xml::escape::escape, which BytesText::new applies to its content:
\* each of the five reserved characters becomes its entity.
RECURSIVE Escape(_)
Escape(str) ==
    IF str = << >> THEN << >>
    ELSE (IF Head(str) \in Reserved THEN Entity(Head(str))
          ELSE << Head(str) >>)
         \o Escape(Tail(str))

\* build_single_param_xml (rtorrent.rs:265-276): format! puts the method and
\* the parameter into the text as they are.
BuildSingleParamXml(method, param) ==
    SingleParam.head \o method \o SingleParam.mid \o param \o SingleParam.tail

\* A parameter element of build_multicall_xml (rtorrent.rs:238-244).
MulticallParam(param) == Multicall.open \o Escape(param) \o Multicall.close

\* A builder that writes the parameters last to first.
BuildMulticallXmlReversed(method, params) ==
    Multicall.head \o Escape(method) \o Multicall.mid
    \o Flatten([i \in DOMAIN params |->
                   MulticallParam(params[Len(params) + 1 - i])])
    \o Multicall.tail

\* build_multicall_xml (rtorrent.rs:205-252).
BuildMulticallXml(method, params) ==
    Multicall.head \o Escape(method) \o Multicall.mid
    \o Flatten([i \in DOMAIN params |-> MulticallParam(params[i])])
    \o Multicall.tail

\* An escaping that replaces the ampersand last.
EscapeUrlAmpersandLast(url) ==
    Replace(Replace(Replace(Replace(Replace(url,
        60, Entity(60)), 62, Entity(62)), 34, Entity(34)), 39, Entity(39)),
        38, Entity(38))

\* escaped_url of add_torrent_url (rtorrent.rs:534-539).
EscapeUrl(url) ==
    Replace(Replace(Replace(Replace(Replace(url,
        38, Entity(38)), 60, Entity(60)), 62, Entity(62)), 34, Entity(34)),
        39, Entity(39))

\* The documents an operation builds, in the order it sends them
\* (rtorrent.rs:509-551).
Documents(op, input) ==
    IF op = "pause_torrent"
    THEN << BuildSingleParamXml(Method.stop, input),
            BuildSingleParamXml(Method.close, input) >>
    ELSE IF op = "resume_torrent"
    THEN << BuildSingleParamXml(Method.open, input),
            BuildSingleParamXml(Method.start, input) >>
    ELSE IF op = "remove_torrent"
    THEN << BuildSingleParamXml(Method.erase, input) >>
    ELSE IF op = "add_torrent_url"
    THEN << LoadStartHead \o EscapeUrl(input) \o SingleParam.tail >>
    ELSE << BuildMulticallXml(Method.multicall2, << input >>) >>

\* The operation builds its documents.
DoBuild ==
    /\ req.op \in BuildOps
    /\ ~req.done
    /\ req' = [req EXCEPT !.output = Documents(req.op, req.input),
                          !.done = TRUE]
    /\ UNCHANGED << appVars, parse, xml, scgi, call, starVars >>

\* build_multicall_xml is called with a parameter list, or get_torrents
\* builds its request (rtorrent.rs:279-295).
DoMulticall ==
    /\ req.op \in { "build_multicall_xml", "get_torrents" }
    /\ ~req.done
    /\ req' = [req EXCEPT
                 !.output =
                     << BuildMulticallXml(Method.multicall2,
                            IF req.op = "get_torrents" THEN Specifiers
                            ELSE req.input) >>,
                 !.done = TRUE]
    /\ UNCHANGED << appVars, parse, xml, scgi, call, starVars >>

\* progress_percent and eta of a record are computed (templates.rs:103,
\* 114).  progress_percent (rtorrent.rs:46-52) is 0.0 for size 0 and else a
\* quotient of two f64, which is computed for every pair of f64.
DoEta ==
    /\ req.op = "eta"
    /\ ~req.done
    /\ \E outcome \in Eta(req.input) :
         req' = [req EXCEPT
                   !.output =
                       [eta |-> outcome,
                        progress |->
                            IF req.input.size_bytes = I64(0, 0, 0)
                            THEN "zero" ELSE "quotient"],
                   !.done = TRUE]
    /\ UNCHANGED << appVars, parse, xml, scgi, call, starVars >>

\* ---------------------------------------------------------- base64_encode
\* const ALPHABET (rtorrent.rs:579).
ALPHABET ==
    <<
    65, 66, 67, 68, 69, 70, 71, 72, 73, 74, 75, 76, 77,
    78, 79, 80, 81, 82, 83, 84, 85, 86, 87, 88, 89, 90,
    97, 98, 99, 100, 101, 102, 103, 104, 105, 106, 107, 108, 109,
    110, 111, 112, 113, 114, 115, 116, 117, 118, 119, 120, 121, 122,
    48, 49, 50, 51, 52, 53, 54, 55, 56, 57, 43, 47
    >>

\* The bytes base64_encode is given: short ones of every kind, and the
\* LongData bytes m, 2m, 3m, ... modulo 256.
DataBytes == { 0, 77, 97, 251, 255 }
DataInputs ==
    SeqsUpTo(DataBytes, MaxData)
    \cup { [i \in 1 .. LongData |-> (i * m) % 256] : m \in { 1, 7, 255 } }

\* n of a chunk (rtorrent.rs:583-586): byte i, counted from 0, shifted left
\* by 16 - 8 i bits.
ChunkBits(chunk) ==
    (chunk[1] * 65536)
    + (IF Len(chunk) > 1 THEN chunk[2] * 256 ELSE 0)
    + (IF Len(chunk) > 2 THEN chunk[3] ELSE 0)

\* An encoding of a chunk that leaves the padding out.
EncodeChunkUnpadded(chunk) ==
    LET n == ChunkBits(chunk) IN
    << ALPHABET[((n \div 262144) % 64) + 1],
       ALPHABET[((n \div 4096) % 64) + 1] >>
    \o (IF Len(chunk) > 1 THEN << ALPHABET[((n \div 64) % 64) + 1] >>
        ELSE << >>)
    \o (IF Len(chunk) > 2 THEN << ALPHABET[(n % 64) + 1] >> ELSE << >>)

\* The four characters of a chunk of one to three bytes (rtorrent.rs:583-601);
\* 61 is '='.
EncodeChunk(chunk) ==
    LET n == ChunkBits(chunk) IN
    << ALPHABET[((n \div 262144) % 64) + 1],
       ALPHABET[((n \div 4096) % 64) + 1],
       IF Len(chunk) > 1 THEN ALPHABET[((n \div 64) % 64) + 1] ELSE 61,
       IF Len(chunk) > 2 THEN ALPHABET[(n % 64) + 1] ELSE 61 >>

\* base64_encode (rtorrent.rs:578-605): data.chunks(3), each encoded.
RECURSIVE Base64Encode(_)
Base64Encode(data) ==
    IF data = << >> THEN << >>
    ELSE IF Len(data) <= 3 THEN EncodeChunk(data)
    ELSE EncodeChunk(SubSeq(data, 1, 3))
         \o Base64Encode(SubSeq(data, 4, Len(data)))

\* base64_encode is applied to the data.
DoBase64 ==
    /\ req.op = "base64_encode"
    /\ ~req.done
    /\ req' = [req EXCEPT !.output = Base64Encode(req.input), !.done = TRUE]
    /\ UNCHANGED << appVars, parse, xml, scgi, call, starVars >>

\* ------------------------------------------------------ client operations
\* An operation is called and begins its first request with connect
\* (rtorrent.rs:170).
ClientCall(op) ==
    /\ call.pc = "idle"
    /\ call' = [NoCall EXCEPT !.op = op, !.pc = "connect", !.request = 1,
                              !.methods = << MethodOf(op, 1) >>]
    /\ UNCHANGED << appVars, parse, xml, scgi, req, starVars >>

\* An operation that goes on to its next request after a failure.
FailThenContinue(stage, kind) ==
    IF call.request < RequestsOf(call.op)
    THEN [call EXCEPT !.pc = "connect", !.request = @ + 1, !.body = "none",
                      !.failed = Append(@, stage),
                      !.methods = Append(@, MethodOf(call.op,
                                                     call.request + 1))]
    ELSE [call EXCEPT !.pc = "returned", !.result = Some(Err(kind)),
                      !.failed = Append(@, stage)]

\* The operation returns Err(kind) because `stage` failed: `?` returns the
\* error of send_request (rtorrent.rs:511, 513).
Fail(stage, kind) ==
    [call EXCEPT !.pc = "returned", !.result = Some(Err(kind)),
                 !.failed = Append(@, stage)]

\* The request is done: the next one, or Ok(value) after the last.
AfterRequest(c, value) ==
    IF c.request < RequestsOf(c.op)
    THEN [c EXCEPT !.pc = "connect", !.request = @ + 1, !.body = "none",
                   !.methods = Append(@, MethodOf(c.op, c.request + 1))]
    ELSE [c EXCEPT !.pc = "returned", !.result = Some(Ok(value))]

\* UnixStream::connect succeeds (rtorrent.rs:161-167).
ClientConnectOk ==
    /\ call.pc = "connect"
    /\ call' = [call EXCEPT !.pc = "write", !.connects = @ + 1]
    /\ UNCHANGED << appVars, parse, xml, scgi, req, starVars >>

\* UnixStream::connect fails: RtorrentConnection (rtorrent.rs:164).
ClientConnectErr ==
    /\ call.pc = "connect"
    /\ call' = [Fail("connect", "RtorrentConnection") EXCEPT
                 !.connects = @ + 1]
    /\ UNCHANGED << appVars, parse, xml, scgi, req, starVars >>

\* write_all succeeds (rtorrent.rs:187).
ClientWriteOk ==
    /\ call.pc = "write"
    /\ call' = [call EXCEPT !.pc = "read"]
    /\ UNCHANGED << appVars, parse, xml, scgi, req, starVars >>

\* write_all fails: ScgiError (rtorrent.rs:188).
ClientWriteErr ==
    /\ call.pc = "write"
    /\ call' = Fail("write", "ScgiError")
    /\ UNCHANGED << appVars, parse, xml, scgi, req, starVars >>

\* A client whose mutations reject a fault document.
ClientReadOkCheckingFault(body) ==
    /\ call.pc = "read"
    /\ body \in Bodies \/ ~Decodes(call.op)
    /\ LET read == [call EXCEPT !.body = body, !.bodies = Append(@, body)]
       IN call' = IF Decodes(call.op)
                  THEN [read EXCEPT !.pc = "decode"]
                  ELSE IF body = "fault"
                  THEN [read EXCEPT !.pc = "returned",
                                    !.result = Some(Err("XmlRpcError")),
                                    !.failed = Append(@, "decode")]
                  ELSE AfterRequest(read, << >>)
    /\ UNCHANGED << appVars, parse, xml, scgi, req, starVars >>

\* read_to_end succeeds and send_request returns the body (rtorrent.rs:192,
\* 202); an operation that does not decode it is done with the request.
ClientReadOk(body) ==
    /\ call.pc = "read"
    /\ body \in Bodies \/ ~Decodes(call.op)
    /\ LET read == [call EXCEPT !.body = body, !.bodies = Append(@, body)]
       IN call' = IF Decodes(call.op)
                  THEN [read EXCEPT !.pc = "decode"]
                  ELSE AfterRequest(read, << >>)
    /\ UNCHANGED << appVars, parse, xml, scgi, req, starVars >>

\* read_to_end fails: ScgiError (rtorrent.rs:193).
ClientReadErr ==
    /\ call.pc = "read"
    /\ call' = Fail("read", "ScgiError")
    /\ UNCHANGED << appVars, parse, xml, scgi, req, starVars >>

\* get_torrents returns what parse_torrents_response returns
\* (rtorrent.rs:300): XmlRpcError for a reader error (rtorrent.rs:409-411).
ClientDecodeTorrents ==
    /\ call.pc = "decode"
    /\ call.op = "get_torrents"
    /\ call' = IF call.body = "decodable"
               THEN AfterRequest(call, << "torrents" >>)
               ELSE Fail("decode", "XmlRpcError")
    /\ UNCHANGED << appVars, parse, xml, scgi, req, starVars >>

\* get_client_version: parse_string_response gives None for a reader error
\* (rtorrent.rs:501, 506) and ok_or_else makes it XmlRpcError
\* (rtorrent.rs:480-481).
ClientDecodeVersion ==
    /\ call.pc = "decode"
    /\ call.op = "get_client_version"
    /\ call' = IF call.body = "decodable"
               THEN AfterRequest(call, << "version" >>)
               ELSE Fail("decode", "XmlRpcError")
    /\ UNCHANGED << appVars, parse, xml, scgi, req, starVars >>

\* get_global_stats: parse_int_response gives None for a reader error
\* (rtorrent.rs:469, 474) and unwrap_or(0) makes it the rate 0
\* (rtorrent.rs:429, 434); after the second rate Ok(GlobalStats) is returned
\* (rtorrent.rs:443-448).
ClientDecodeRate(rate) ==
    /\ call.pc = "decode"
    /\ call.op = "get_global_stats"
    /\ LET parsed == IF call.body = "decodable" THEN Some(rate) ELSE None
           value == IF IsSome(parsed) THEN Unwrap(parsed) ELSE 0
           rates == Append(call.rates, value)
       IN call' = AfterRequest(
                    [call EXCEPT !.rates = rates,
                                 !.failed = IF IsSome(parsed) THEN @
                                            ELSE Append(@, "decode")],
                    rates)
    /\ UNCHANGED << appVars, parse, xml, scgi, req, starVars >>

\* The caller has taken the result.
ClientDone ==
    /\ call.pc = "returned"
    /\ call' = NoCall
    /\ UNCHANGED << appVars, parse, xml, scgi, req, starVars >>

\* ------------------------------------------------------------ toggle_star
\* torrent_toggle_star calls toggle_star(hash) (routes.rs:285).
ToggleCall(p, h) ==
    /\ toggle[p].pc = "idle"
    /\ toggle' = [toggle EXCEPT ![p] = [IdleToggle EXCEPT !.pc = "write",
                                                         !.hash = h]]
    /\ UNCHANGED << appVars, parse, xml, scgi, req, call,
                    starred_torrents, starred_writer >>

\* A lock that gives the write guard to whoever asks.
ToggleWriteUnlocked(p) ==
    /\ toggle[p].pc = "write"
    /\ starred_writer' = p
    /\ toggle' = [toggle EXCEPT ![p].pc = "contains"]
    /\ UNCHANGED << appVars, parse, xml, scgi, req, call, starred_torrents >>

\* starred_torrents.write().await returns the guard once no other task
\* holds it (state.rs:51).
ToggleWrite(p) ==
    /\ toggle[p].pc = "write"
    /\ starred_writer = 0
    /\ starred_writer' = p
    /\ toggle' = [toggle EXCEPT ![p].pc = "contains"]
    /\ UNCHANGED << appVars, parse, xml, scgi, req, call, starred_torrents >>

\* starred.contains(hash) (state.rs:52).
ToggleContains(p) ==
    /\ toggle[p].pc = "contains"
    /\ toggle' = [toggle EXCEPT
                    ![p].pc = "mutate",
                    ![p].found = toggle[p].hash \in starred_torrents]
    /\ UNCHANGED << appVars, parse, xml, scgi, req, call,
                    starred_torrents, starred_writer >>

\* starred.remove(hash) and false, or starred.insert(hash) and true
\* (state.rs:53-57).
ToggleMutate(p) ==
    /\ toggle[p].pc = "mutate"
    /\ starred_torrents' = IF toggle[p].found
                           THEN starred_torrents \ { toggle[p].hash }
                           ELSE starred_torrents \cup { toggle[p].hash }
    /\ toggle' = [toggle EXCEPT ![p].pc = "return",
                                ![p].ret = ~toggle[p].found]
    /\ UNCHANGED << appVars, parse, xml, scgi, req, call, starred_writer >>

\* toggle_star returns and the guard is dropped (state.rs:58-59).
ToggleReturn(p) ==
    /\ toggle[p].pc = "return"
    /\ starred_writer' = IF starred_writer = p THEN 0 ELSE starred_writer
    /\ toggle' = [toggle EXCEPT ![p] = IdleToggle]
    /\ UNCHANGED << appVars, parse, xml, scgi, req, call, starred_torrents >>

\* ------------------------------------------------------- specifications
NextFor(maxf, subs, feeds) ==
    \/ PollerTick(maxf)
    \/ PollerGetTorrentsOk
    \/ PollerGetTorrentsErr
    \/ PollerStoreTorrents
    \/ PollerSendTorrents
    \/ PollerGlobalStatsOk
    \/ PollerGlobalStatsErr
    \/ PollerStoreStats
    \/ PollerSendStats
    \/ PollerTickEnd
    \/ PollerShutdown
    \/ RefreshCall(maxf)
    \/ RefreshGetTorrentsOk
    \/ RefreshGetTorrentsErr
    \/ RefreshStore
    \/ RefreshSend
    \/ \E s \in subs, f \in feeds : SubConnect(s, f)
    \/ \E s \in subs : SubSubscribe(s)
    \/ \E s \in subs : SubRecv(s)
    \/ \E s \in subs : SubDisconnect(s)
    \/ DropAppState

Next == NextFor(MaxFetch, AllSubs, Feeds)

Spec == Init /\ [][Next]_vars

\* The handlers of the mutating requests, with the poller publishing to one
\* client of the item feed.
NextHandlers ==
    \/ PollerTick(MaxFetch)
    \/ PollerGetTorrentsOk
    \/ PollerGetTorrentsErr
    \/ PollerStoreTorrents
    \/ PollerSendTorrents
    \/ PollerTickEnd
    \/ SubConnect(1, "torrents")
    \/ SubSubscribe(1)
    \/ SubRecv(1)
    \/ SubDisconnect(1)
    \/ \E op \in Mutations : HandlerCall(op)
    \/ HandlerMutateOk
    \/ HandlerMutateErr
    \/ HandlerRespond

SpecHandlers == Init /\ [][NextHandlers]_vars

\* The decoding of one response.
NextParse ==
    \/ ParseCall
    \/ ReadStartArray
    \/ ReadEndArray
    \/ ReadStartScalar
    \/ ReadText
    \/ ReadEndScalar
    \/ ReadEmptyScalar
    \/ ReadEof
    \/ ReadErr

SpecParse == Init /\ [][NextParse]_vars

\* The decoding of one response in which the text of an element can come in
\* several events.
NextSplit ==
    \/ NextParse
    \/ ReadTextAgain

SpecSplit == Init /\ [][NextSplit]_vars

\* The values a flag element and the message element can decode to.
FlagValues ==
    { Blank } \cup { Text(t, 1, 0) : t \in { << 48 >>, << 49 >>, << 50 >> } }
MessageValues ==
    { Blank } \cup { Text(t, 1, 0) : t \in { << 48 >>, << 101, 114, 114 >> } }

\* The decoder at the end of a row of RowArity values, for every combination
\* of the four flags and the message.
InitState ==
    /\ InitApp
    /\ \E a \in FlagValues, o \in FlagValues, h \in FlagValues,
          c \in FlagValues, m \in MessageValues :
         parse = [NotParsing EXCEPT
                    !.pc = "loop", !.in_array = TRUE, !.array_depth = 2,
                    !.current_values =
                        [i \in 1 .. RowArity |->
                           IF i = 7 THEN a ELSE IF i = 8 THEN o
                           ELSE IF i = 9 THEN h ELSE IF i = 10 THEN c
                           ELSE IF i = 11 THEN m
                           ELSE Text(DefaultText(i - 1), 1, i - 1)]]
    /\ xml = [NoInput EXCEPT !.at = "row", !.row = 1, !.col = RowArity]
    /\ scgi = NoRequest
    /\ InitRest

NextState ==
    \/ ReadEndArray
    \/ ReadEof

SpecState == InitState /\ [][NextState]_vars

\* The decoder at the end of the example row in which up to two values are
\* replaced by other texts (p, q = 0: no replacement).
InitRow ==
    /\ InitApp
    /\ \E p \in 0 .. RowArity, q \in 0 .. RowArity,
          a \in RowTexts, b \in RowTexts :
         parse = [NotParsing EXCEPT
                    !.pc = "loop", !.in_array = TRUE, !.array_depth = 2,
                    !.current_values =
                        [i \in 1 .. RowArity |->
                           LET s == IF i = q THEN b ELSE a IN
                           IF i \in { p, q }
                           THEN (IF s = << >> THEN Blank
                                 ELSE Text(s, 1, i - 1))
                           ELSE ExampleRow[i]]]
    /\ xml = [NoInput EXCEPT !.at = "row", !.row = 1, !.col = RowArity]
    /\ scgi = NoRequest
    /\ InitRest

SpecRow == InitRow /\ [][NextState]_vars

\* send_request with every payload of at most MaxPayload characters.
InitFrame ==
    /\ InitApp
    /\ parse = NotParsing
    /\ xml = NoInput
    /\ \E payload \in SeqsUpTo(Chars, MaxPayload) :
         scgi = [op |-> "frame", input |-> payload, output |-> << >>]
    /\ InitRest

SpecFrame == InitFrame /\ [][DoFrame]_vars

\* send_request with every response of at most MaxResponse bytes.
InitUnframe ==
    /\ InitApp
    /\ parse = NotParsing
    /\ xml = NoInput
    /\ \E response \in SeqsUpTo(ResponseBytes, MaxResponse) :
         scgi = [op |-> "unframe", input |-> response, output |-> << >>]
    /\ InitRest

SpecUnframe == InitUnframe /\ [][DoUnframe]_vars

\* Every builder with every string of at most MaxParam characters.
InitBuild ==
    /\ InitApp
    /\ parse = NotParsing
    /\ xml = NoInput
    /\ scgi = NoRequest
    /\ call = NoCall
    /\ InitStars
    /\ \E op \in BuildOps, input \in SeqsUpTo(ParamChars, MaxParam) :
         req = [op |-> op, input |-> input, output |-> << >>, done |-> FALSE]

SpecBuild == InitBuild /\ [][DoBuild]_vars

\* progress_percent and eta of every record with fields of RecordValues.
InitEta ==
    /\ InitApp
    /\ parse = NotParsing
    /\ xml = NoInput
    /\ scgi = NoRequest
    /\ call = NoCall
    /\ InitStars
    /\ \E size \in RecordValues, completed \in RecordValues,
          rate \in RecordValues, complete \in BOOLEAN :
         req = [op |-> "eta",
                input |-> [size_bytes |-> size, completed_bytes |-> completed,
                           down_rate |-> rate, complete |-> complete],
                output |-> << >>, done |-> FALSE]

SpecEta == InitEta /\ [][DoEta]_vars

\* build_multicall_xml with every list of ParamLists, and get_torrents.
InitMulticall ==
    /\ InitApp
    /\ parse = NotParsing
    /\ xml = NoInput
    /\ scgi = NoRequest
    /\ call = NoCall
    /\ InitStars
    /\ \/ \E params \in ParamLists :
            req = [op |-> "build_multicall_xml", input |-> params,
                   output |-> << >>, done |-> FALSE]
       \/ req = [op |-> "get_torrents", input |-> << >>,
                 output |-> << >>, done |-> FALSE]

SpecMulticall == InitMulticall /\ [][DoMulticall]_vars

\* base64_encode with every input of DataInputs.
InitBase64 ==
    /\ InitApp
    /\ parse = NotParsing
    /\ xml = NoInput
    /\ scgi = NoRequest
    /\ call = NoCall
    /\ InitStars
    /\ \E data \in DataInputs :
         req = [op |-> "base64_encode", input |-> data, output |-> << >>,
                done |-> FALSE]

SpecBase64 == InitBase64 /\ [][DoBase64]_vars

\* The client operations, one at a time, with every outcome of every stage.
NextClient ==
    \/ \E op \in ClientOps : ClientCall(op)
    \/ ClientConnectOk
    \/ ClientConnectErr
    \/ ClientWriteOk
    \/ ClientWriteErr
    \/ \E body \in BodiesRead : ClientReadOk(body)
    \/ ClientReadErr
    \/ ClientDecodeTorrents
    \/ ClientDecodeVersion
    \/ \E rate \in Rates : ClientDecodeRate(rate)
    \/ ClientDone

SpecClient == Init /\ [][NextClient]_vars

\* The tasks toggling stars, with the poller and refresh_cache at work.
NextStar ==
    \/ \E p \in Tasks, h \in Hashes : ToggleCall(p, h)
    \/ \E p \in Tasks : ToggleWrite(p)
    \/ \E p \in Tasks : ToggleContains(p)
    \/ \E p \in Tasks : ToggleMutate(p)
    \/ \E p \in Tasks : ToggleReturn(p)
    \/ PollerTick(MaxFetch)
    \/ PollerGetTorrentsOk
    \/ PollerGetTorrentsErr
    \/ PollerTickEnd
    \/ RefreshCall(MaxFetch)
    \/ RefreshGetTorrentsOk
    \/ RefreshGetTorrentsErr
    \/ RefreshStore
    \/ RefreshSend

SpecStar == Init /\ [][NextStar]_vars

\* The poller's steps inside a tick: a remote call in flight returns, a lock
\* is acquired, a send is done.
PollerInTick ==
    \/ PollerGetTorrentsOk
    \/ PollerGetTorrentsErr
    \/ PollerStoreTorrents
    \/ PollerSendTorrents
    \/ PollerGlobalStatsOk
    \/ PollerGlobalStatsErr
    \/ PollerStoreStats
    \/ PollerSendStats
    \/ PollerTickEnd

\* The scheduler runs the poller task whenever it can take a step, and every
\* remote call in flight returns; select! picks among its ready branches at
\* random, so a branch that is ready again and again is eventually taken.
SpecLive ==
    /\ Init /\ [][Next]_vars
    /\ WF_vars(PollerInTick)
    /\ SF_vars(PollerShutdown)

\* One client of the item feed and enough fetches to overflow its receiver:
\* the poller and refresh_cache publish, one after the other, and every
\* fetch succeeds.
NextLag ==
    \/ refresh_pc = "idle" /\ PollerTick(MaxFetchLag)
    \/ PollerGetTorrentsOk
    \/ PollerStoreTorrents
    \/ PollerSendTorrents
    \/ PollerTickEnd
    \/ poller_pc = "select" /\ RefreshCall(MaxFetchLag)
    \/ RefreshGetTorrentsOk
    \/ RefreshStore
    \/ RefreshSend
    \/ SubConnect(1, "torrents")
    \/ SubSubscribe(1)
    \/ SubRecv(1)

SpecLag == Init /\ [][NextLag]_vars

\* ------------------------------------------------------------ properties
\* The poller is inside a tick.
InTick == poller_pc \notin {"select", "exited"}

\* C1 as stated: in a tick at whose start both feeds have no live subscriber
\* the poller issues no remote call, neither get_torrents nor
\* get_global_stats.
C1_NoRemoteCallWithoutSubscribers ==
    (InTick /\ ~need_torrents /\ ~need_stats)
        => tick.get_torrents = 0 /\ tick.get_global_stats = 0

\* C1 amended: in a tick at whose start both feeds have no live subscriber
\* the poller issues get_torrents exactly once and never get_global_stats.
C1_OnlyItemsFetchedWithoutSubscribers ==
    (InTick /\ ~need_torrents /\ ~need_stats)
        => tick.get_torrents = 1 /\ tick.get_global_stats = 0

\* A tick without subscribers has fetched the items and is over.
C1_Witness ==
    /\ poller_pc = "tick_end"
    /\ ~need_torrents /\ ~need_stats
    /\ IsSome(torrents_result)
    /\ tick.get_torrents = 1

\* C2 as stated: when the item fetch of a tick succeeded, at the end of the
\* tick the 'latest' item slot holds exactly the fetched list and the list
\* has been sent on the item feed, whatever the number of subscribers.
C2_FetchedItemsStoredAndSent ==
    (poller_pc = "tick_end" /\ IsSome(torrents_result))
        => /\ last_torrents = torrents_result
           /\ "send_torrents" \in { tick.steps[i] : i \in DOMAIN tick.steps }

\* C3 as stated: a subscriber that has not lagged has missed no snapshot
\* published after the one it read from the 'latest' slot.
C3_NoPublicationMissed ==
    \A s \in AllSubs :
        (sse[s].pc = "live" /\ ~sse[s].lagged) => sse[s].missed = {}

\* C4 as stated: a handler that starts after item publications have occurred
\* reads, as its first delivery, the most recently published snapshot, never
\* an earlier one.
C4_FirstDeliveryIsMostRecent ==
    \A s \in AllSubs :
        (sse[s].pc = "read" /\ sse[s].feed = "torrents" /\ sse[s].mark > 0)
            => IsSome(sse[s].initial) /\ InitialGen(sse[s]) >= sse[s].mark

\* The step is the return of a failed fetch: of get_torrents in the poller,
\* of get_global_stats in the poller, of get_torrents in refresh_cache.
PollerItemFetchFails == poller_pc = "get_torrents" /\ torrents_result' = None
                        /\ poller_pc' = "tick_end"
PollerCountersFetchFail == poller_pc = "get_global_stats"
                           /\ poller_pc' = "tick_end"
RefreshFetchFails == refresh_pc = "get_torrents" /\ refresh_pc' = "idle"

\* C5: a failed item fetch (poller or refresh_cache) leaves the 'latest' item
\* slot and the item feed as they were, and the tick ends with nothing stored
\* or sent; a failed counters fetch leaves the counters slot and the counters
\* feed as they were; a slot that holds a snapshot is never reset to empty.
C5_FailedFetchChangesNothing ==
    [][ /\ (PollerItemFetchFails \/ RefreshFetchFails)
            => UNCHANGED << last_torrents, torrents_tx, sent >>
        /\ PollerItemFetchFails => tick'.steps = << >>
        /\ PollerCountersFetchFail
            => /\ UNCHANGED << last_stats, stats_tx, sent >>
               /\ \A i \in DOMAIN tick'.steps :
                    tick'.steps[i] \notin {"store_stats", "send_stats"}
        /\ IsSome(last_torrents) => IsSome(last_torrents')
        /\ IsSome(last_stats) => IsSome(last_stats')
      ]_vars

\* An item fetch of the poller has failed while the item slot holds a
\* snapshot, which is still there.
C5_Witness ==
    /\ poller_pc = "tick_end"
    /\ torrents_result = None
    /\ IsSome(last_torrents)

\* C6 as stated: a subscriber of the item feed receives snapshots in
\* generation order: no delivery is of an earlier fetch than the delivery
\* before it.
C6_DeliveredInGenerationOrder ==
    [][ \A s \in AllSubs :
          ( /\ sse[s].pc = "live" /\ sse'[s].pc = "live"
            /\ sse[s].feed = "torrents"
            /\ sse'[s].next = sse[s].next + 1 )
            => sse'[s].last >= sse[s].last
      ]_vars

\* C8 as stated: when the poller stores the counters in a tick, it has
\* stored and sent the item snapshot of that tick before.
C8_ItemsBeforeCounters ==
    (InTick /\ Len(tick.steps) > 0
       /\ tick.steps[Len(tick.steps)] \in {"store_stats", "send_stats"})
        => /\ Len(tick.steps) >= 3
           /\ tick.steps[1] = "store_torrents"
           /\ tick.steps[2] = "send_torrents"
           /\ last_torrents = torrents_result

\* The step is taken by the poller task / by the caller of refresh_cache.
PollerStep == poller_pc' # poller_pc
RefreshStep == refresh_pc' # refresh_pc

\* C9 as stated: only steps of the poller task write the 'latest' item slot
\* or the 'latest' counters slot.
C9_PollerIsOnlyWriter ==
    [][ (last_torrents' # last_torrents \/ last_stats' # last_stats)
          => PollerStep ]_vars

\* C10 as stated: once the shutdown signal has been sent, the poller begins
\* no remote call (get_torrents, get_global_stats) any more.
C10_NoRemoteCallAfterShutdown ==
    [][ shutdown => /\ tick'.get_torrents <= tick.get_torrents
                    /\ tick'.get_global_stats <= tick.get_global_stats
      ]_vars

\* The positions at or after the cursor `next` whose value the channel still
\* holds: the backlog of a receiver.
RetainedPos(ch, next) ==
    { p \in next .. ch.pos - 1 :
        ch.buf[p % Capacity].pos = p /\ IsSome(ch.buf[p % Capacity].val) }

Oldest(positions) == CHOOSE p \in positions : \A q \in positions : p <= q

\* C7: a send is possible whatever the subscribers have consumed; the
\* backlog of a subscriber holds at most 16 publications, the newest ones;
\* a subscriber that was overrun stays subscribed and continues with the
\* oldest publication retained.
C7_BacklogBoundedOldestDropped ==
    /\ [](/\ poller_pc = "send_torrents" => ENABLED PollerSendTorrents
          /\ refresh_pc = "send" => ENABLED RefreshSend
          /\ \A s \in AllSubs :
               sse[s].pc = "live" =>
                 LET ch == Tx(sse[s].feed)
                     backlog == RetainedPos(ch, sse[s].next)
                 IN /\ Cardinality(backlog) <= 16
                    /\ backlog = { p \in sse[s].next .. ch.pos - 1 :
                                     p >= ch.pos - 16 })
    /\ [][ \A s \in AllSubs :
             LET ch == Tx(sse[s].feed) IN
             ( /\ sse[s].pc = "live"
               /\ sse'[s] # sse[s]
               /\ RecvKind(ch, sse[s].next) = "lagged" )
               => /\ sse'[s].pc = "live"
                  /\ sse'[s].next = Oldest(RetainedPos(ch, 0))
                  /\ RecvKind(Tx(sse[s].feed)', sse'[s].next) = "value"
         ]_vars

\* A subscriber was overrun and has since consumed everything retained.
C7_Witness ==
    /\ sse[1].pc = "live"
    /\ sse[1].lagged
    /\ sse[1].next = torrents_tx.pos

\* C11: once the shutdown signal is sent the poller task eventually
\* terminates; the signal is one-shot (once sent it stays sent, nothing the
\* owner does afterwards changes it) and the terminated poller does nothing
\* more.
C11_PollerEventuallyTerminates ==
    /\ shutdown ~> (poller_pc = "exited")
    /\ [][ /\ shutdown => shutdown'
           /\ poller_pc = "exited" => UNCHANGED pollerVars ]_vars

\* The signal was sent while a tick was in progress or due, and the poller
\* has terminated.
C11_Witness ==
    /\ shutdown
    /\ poller_pc = "exited"
    /\ fetches > 0

\* C12: a call of refresh_cache fetches by itself, whatever the poller is
\* doing; a successful fetch is always followed by the store of the fetched
\* list in the 'latest' item slot and by its send, with or without
\* subscribers; the send puts the list at the tail of the item feed for
\* every live receiver.
C12_RefreshFetchesStoresPublishes ==
    /\ []( (refresh_pc = "idle" /\ ~shutdown /\ fetches + InFlight < MaxFetch)
             => ENABLED RefreshCall(MaxFetch) )
    /\ [][ RefreshStep =>
           /\ refresh_pc = "idle" => refresh_pc' = "get_torrents"
           /\ (refresh_pc = "get_torrents" /\ fetches' # fetches)
                => /\ refresh_pc' = "store"
                   /\ refresh_snap' = Some(Fetched)
           /\ refresh_pc = "store"
                => /\ refresh_pc' = "send"
                   /\ last_torrents' = refresh_snap
           /\ refresh_pc = "send"
                => LET n == receiver_count("torrents")
                       slot == torrents_tx'.buf[torrents_tx.pos % Capacity]
                   IN /\ sent'["torrents"] = Unwrap(refresh_snap).gen
                      /\ IF n = 0 THEN torrents_tx' = torrents_tx
                         ELSE /\ torrents_tx'.pos = torrents_tx.pos + 1
                              /\ slot.pos = torrents_tx.pos
                              /\ slot.rem = n
                              /\ slot.val = refresh_snap
         ]_vars

\* refresh_cache has stored its list while the item feed has no subscriber
\* and the poller is in the middle of a tick.
C12_Witness ==
    /\ refresh_pc = "send"
    /\ last_torrents = refresh_snap
    /\ receiver_count("torrents") = 0
    /\ InTick

\* C13 as stated: when a handler has served a successful pause, resume,
\* remove or add, a snapshot fetched after the mutation has been published
\* on the item feed (the out-of-cycle refresh).
C13_MutationFollowedByRefresh ==
    [][ (handler.pc # "idle" /\ handler'.pc = "idle"
           /\ handler.mutated >= 0)
          => sent["torrents"] > handler.mutated ]_vars

\* C14: the state of every record is the first match of: hashing flag set
\* -> Hashing; message non-empty and not "0" -> Error; not active -> Paused;
\* active and complete -> Seeding; otherwise Downloading; where the flags
\* are those of the record, which are those of its row.
C14_StatePrecedence ==
    \A k \in DOMAIN parse.torrents :
        LET t == parse.torrents[k]
            v == parse.current_values
        IN /\ t.is_active = (v[7].s = << 49 >>)
           /\ t.is_open = (v[8].s = << 49 >>)
           /\ t.is_hashing = (v[9].s = << 49 >>)
           /\ t.complete = (v[10].s = << 49 >>)
           /\ t.message = v[11]
           /\ t.state =
                IF t.is_hashing THEN "Hashing"
                ELSE IF t.message.s \notin { << >>, << 48 >> } THEN "Error"
                ELSE IF ~t.is_active THEN "Paused"
                ELSE IF t.complete THEN "Seeding"
                ELSE "Downloading"

\* A record of a row with the hashing flag, a message, and not active.
C14_Witness ==
    /\ Len(parse.torrents) = 1
    /\ parse.torrents[1].is_hashing
    /\ parse.torrents[1].message.s = << 101, 114, 114 >>
    /\ ~parse.torrents[1].is_active
    /\ parse.torrents[1].state = "Hashing"

\* The text values among hash, name and message of a record: they carry the
\* row and the column they were read from.
Origins(t) == { v \in {t.hash, t.name, t.message} : v # Blank }
ColumnOf(t, v) == IF v = t.hash /\ v.col = 0 THEN 0
                  ELSE IF v = t.name /\ v.col = 1 THEN 1
                  ELSE IF v = t.message /\ v.col = 10 THEN 10 ELSE -1
\* The row a record was built from.
RowOf(t) == CHOOSE r \in 0 .. MaxRows : \A v \in Origins(t) : v.row >= r
                                        /\ \E w \in Origins(t) : w.row = r

\* C15: the end of a row with fewer than 12 values adds no record and ends
\* the decoding with no error; every record holds values of one row only,
\* a row of at least 12 values, each at the position it had in that row.
C15_ShortRowLeavesNoTrace ==
    /\ [][ (xml.at = "row" /\ xml'.at = "outer" /\ xml.col < 12)
             => /\ parse'.torrents = parse.torrents
                /\ parse'.pc = "loop"
                /\ parse'.result = None ]_vars
    /\ [](\A k \in DOMAIN parse.torrents :
            LET t == parse.torrents[k] IN
            /\ Origins(t) # {}
            /\ \A v \in Origins(t) :
                 /\ v.row = RowOf(t)
                 /\ ColumnOf(t, v) = v.col
            /\ IF RowOf(t) <= Len(xml.rows)
               THEN xml.rows[RowOf(t)] >= 12
               ELSE RowOf(t) = xml.row /\ xml.col >= 12)

\* A short row was followed by a full row, which gave the only record.
C15_Witness ==
    /\ Len(xml.rows) = 2
    /\ xml.rows[1] \in 1 .. 11
    /\ Len(parse.torrents) = 1
    /\ RowOf(parse.torrents[1]) = 2

\* The rows of the response that have full arity, in order.
RECURSIVE FullRows(_)
FullRows(n) ==
    IF n = 0 THEN << >>
    ELSE IF xml.rows[n] = 12 THEN Append(FullRows(n - 1), n)
    ELSE FullRows(n - 1)

\* C16: for a complete response whose rows have at most 12 values, the
\* result is Ok with exactly one record per row of 12 values, in the order
\* of the rows: N records when all N rows are full, fewer otherwise.
C16_OneRecordPerFullRow ==
    ( /\ parse.pc = "done"
      /\ xml.at = "end"
      /\ \A r \in DOMAIN xml.rows : xml.rows[r] <= 12 )
      => /\ IsSome(parse.result)
         /\ Unwrap(parse.result).ok
         /\ LET got == Unwrap(parse.result).torrents
                full == FullRows(Len(xml.rows))
            IN /\ Len(got) = Len(full)
               /\ \A k \in DOMAIN got : RowOf(got[k]) = full[k]

\* A response of two full rows was decoded to two records.
C16_Witness ==
    /\ parse.pc = "done"
    /\ xml.at = "end"
    /\ xml.rows = << 12, 12 >>
    /\ Len(Unwrap(parse.result).torrents) = 2

\* The decoder is inside row xml.row.
InRow == parse.pc = "loop" /\ xml.at \in {"row", "val", "valtext"}

\* C17: an element without text, empty or self-closing, adds exactly one
\* empty string at the end of the values; so inside a row the values are as
\* many as the elements read and every text value is at the position of its
\* element.
C17_EmptyElementKeepsPositions ==
    /\ [][ xml'.empties = xml.empties + 1
             => parse'.current_values = Append(parse.current_values, Blank)
         ]_vars
    /\ [](InRow =>
            /\ Len(parse.current_values)
                 = xml.col + (IF xml.at = "valtext" THEN 1 ELSE 0)
            /\ \A i \in DOMAIN parse.current_values :
                 LET v == parse.current_values[i] IN
                 v # Blank => v.col = i - 1 /\ v.row = xml.row)

\* An empty element in the middle of a row is followed by a text value at
\* its own position.
C17_Witness ==
    /\ InRow
    /\ \E i \in 2 .. Len(parse.current_values) - 1 :
         /\ parse.current_values[i] = Blank
         /\ parse.current_values[i + 1].col = i

\* C18: when the reader reports an error the result is an error and carries
\* no record, whatever was decoded before; an Ok result is returned only at
\* the end of the input and holds the records of the complete rows.
C18_ReaderErrorGivesNoRecords ==
    parse.pc = "done"
      => /\ IsSome(parse.result)
         /\ xml.at = "error"
              => /\ ~Unwrap(parse.result).ok
                 /\ Unwrap(parse.result).torrents = << >>
         /\ Unwrap(parse.result).ok
              => /\ xml.at # "error"
                 /\ Unwrap(parse.result).torrents = parse.torrents

\* The reader failed after a complete row had given a record.
C18_Witness ==
    /\ parse.pc = "done"
    /\ xml.at = "error"
    /\ Len(parse.torrents) >= 1
    /\ ~Unwrap(parse.result).ok


\* The fields of a header block, each one ended by a null byte.
RECURSIVE NulFields(_, _)
NulFields(bytes, field) ==
    IF bytes = << >> THEN << >>
    ELSE IF Head(bytes) = 0
         THEN << field >> \o NulFields(Tail(bytes), << >>)
         ELSE NulFields(Tail(bytes), Append(field, Head(bytes)))

\* The number a sequence of decimal digits writes.
RECURSIVE DecValue(_)
DecValue(digits) ==
    IF digits = << >> THEN 0
    ELSE 10 * DecValue(SubSeq(digits, 1, Len(digits) - 1))
         + (digits[Len(digits)] - 48)

IsDecimal(digits) ==
    /\ Len(digits) >= 1
    /\ \A i \in 1 .. Len(digits) : digits[i] \in 48 .. 57
    /\ Len(digits) > 1 => digits[1] # 48

\* C19: the request is the decimal byte length of the header block, a colon,
\* the header block, a comma and the payload verbatim with nothing after it;
\* the header block is CONTENT_LENGTH, SCGI = 1, REQUEST_METHOD = POST and
\* REQUEST_URI = /RPC2 as null-terminated keys and values, and CONTENT_LENGTH
\* is the byte length of the payload.
C19_RequestIsNetstringOfHeadersThenPayload ==
    scgi.op = "framed" =>
        LET request == scgi.output
            xml_body == Flatten(scgi.input)
            colon == Find(request, Colon)
            prefix == SubSeq(request, 1, colon)
            n == DecValue(prefix)
            headers == SubSeq(request, colon + 2, colon + 1 + n)
            fields == NulFields(headers, << >>)
        IN /\ colon >= 1
           /\ IsDecimal(prefix)
           /\ Len(request) = colon + 1 + n + 1 + Len(xml_body)
           /\ Len(headers) = n
           /\ headers[n] = 0
           /\ request[colon + n + 2] = 44
           /\ SubSeq(request, colon + n + 3, Len(request)) = xml_body
           /\ Len(fields) = 8
           /\ fields[1] = CONTENT_LENGTH
           /\ IsDecimal(fields[2])
           /\ DecValue(fields[2]) = Len(xml_body)
           /\ << fields[3], fields[4] >> = << SCGI, One >>
           /\ << fields[5], fields[6] >> = << REQUEST_METHOD, POST >>
           /\ << fields[7], fields[8] >> = << REQUEST_URI, RPC2 >>

\* A framed payload with a two-byte character and a two-digit byte length.
C19_Witness ==
    /\ scgi.op = "framed"
    /\ Len(scgi.input) < Len(Flatten(scgi.input))
    /\ Len(Flatten(scgi.input)) >= 10
    /\ Len(scgi.output) > Len(Flatten(scgi.input))

\* The blank-line separators of a response: where each starts, from 0, and
\* how long it is.
Separators(response) ==
    { << i, 4 >> : i \in { j \in 0 .. Len(response) - 4 :
          SubSeq(response, j + 1, j + 4) = CR \o LF \o CR \o LF } }
    \cup
    { << i, 2 >> : i \in { j \in 0 .. Len(response) - 2 :
          SubSeq(response, j + 1, j + 2) = LF \o LF } }

\* C20: the body returned is everything after the first blank-line separator
\* of the response, the first separator being whichever of CRLF-CRLF and
\* LF-LF occurs earliest.
C20_BodyFollowsEarliestSeparator ==
    (scgi.op = "unframed" /\ Separators(scgi.input) # {}) =>
        LET seps == Separators(scgi.input)
            first == CHOOSE sep \in seps : \A o \in seps : sep[1] <= o[1]
        IN scgi.output =
               SubSeq(scgi.input, first[1] + first[2] + 1, Len(scgi.input))

RECURSIVE Unescape(_)
Unescape(str) ==
    IF str = << >> THEN << >>
    ELSE LET hit == { c \in Reserved :
                        /\ Len(str) >= Len(Entity(c))
                        /\ SubSeq(str, 1, Len(Entity(c))) = Entity(c) }
         IN IF hit = {} THEN << Head(str) >> \o Unescape(Tail(str))
            ELSE LET c == CHOOSE x \in hit : TRUE
                 IN << c >> \o Unescape(SubSeq(str, Len(Entity(c)) + 1,
                                                Len(str)))

\* The text holds no reserved character other than the ampersand that begins
\* an entity.
NoRawReserved(str) ==
    \A i \in 1 .. Len(str) :
        /\ str[i] \notin Reserved \ { 38 }
        /\ str[i] = 38 =>
             \E c \in Reserved :
                 /\ i + Len(Entity(c)) - 1 <= Len(str)
                 /\ SubSeq(str, i, i + Len(Entity(c)) - 1) = Entity(c)

\* The number of bytes the entities of the reserved characters of str add.
RECURSIVE EntityGrowth(_)
EntityGrowth(str) ==
    IF str = << >> THEN 0
    ELSE (IF Head(str) \in Reserved THEN Len(Entity(Head(str))) - 1 ELSE 0)
         + EntityGrowth(Tail(str))

\* The content of the last string element of a document.
StringContent(doc, head) ==
    SubSeq(doc, Len(head) + 1, Len(doc) - Len(SingleParam.tail))

\* What comes before the embedded string in the documents of an operation.
HeadsOf(op) ==
    IF op = "pause_torrent"
    THEN << SingleParam.head \o Method.stop \o SingleParam.mid,
            SingleParam.head \o Method.close \o SingleParam.mid >>
    ELSE IF op = "resume_torrent"
    THEN << SingleParam.head \o Method.open \o SingleParam.mid,
            SingleParam.head \o Method.start \o SingleParam.mid >>
    ELSE IF op = "remove_torrent"
    THEN << SingleParam.head \o Method.erase \o SingleParam.mid >>
    ELSE IF op = "add_torrent_url"
    THEN << LoadStartHead >>
    ELSE << Multicall.head \o Method.multicall2 \o Multicall.mid \o Multicall.open >>

\* C22: the string pause, resume and remove embed, and every field specifier
\* of a multicall, is escaped: the string element of each document holds no
\* raw reserved character and reads back as the string given.
C22_EmbeddedStringsEscaped ==
    (req.done /\ req.op # "add_torrent_url") =>
        \A k \in DOMAIN req.output :
            LET content ==
                    IF req.op = "build_multicall_xml"
                    THEN SubSeq(req.output[k], Len(HeadsOf(req.op)[k]) + 1,
                                Len(req.output[k]) - Len(Multicall.close)
                                  - Len(Multicall.tail))
                    ELSE StringContent(req.output[k], HeadsOf(req.op)[k])
            IN /\ NoRawReserved(content)
               /\ Unescape(content) = req.input

\* C23: add_torrent_url escapes its URL exactly once: the string element
\* holds no raw reserved character, reads back as the URL, and is longer than
\* the URL by one entity per reserved character of the URL, no more.
C23_UrlEscapedExactlyOnce ==
    (req.done /\ req.op = "add_torrent_url") =>
        LET content == StringContent(req.output[1], LoadStartHead) IN
        /\ Len(req.output) = 1
        /\ SubSeq(req.output[1], 1, Len(LoadStartHead)) = LoadStartHead
        /\ NoRawReserved(content)
        /\ Unescape(content) = req.input
        /\ Len(content) = Len(req.input) + EntityGrowth(req.input)

\* A URL with an ampersand and another reserved character was embedded.
C23_Witness ==
    /\ req.done
    /\ req.op = "add_torrent_url"
    /\ \E i, j \in 1 .. Len(req.input) :
         /\ req.input[i] = 38
         /\ req.input[j] \in Reserved \ { 38 }
    /\ Len(req.output[1]) > Len(LoadStartHead) + Len(req.input)

\* Bit j, counted from 1 and the most significant first, of a byte
\* sequence; 0 past its end.
BitAt(data, j) ==
    IF j > 8 * Len(data) THEN 0
    ELSE (data[((j - 1) \div 8) + 1] \div (2 ^ (7 - ((j - 1) % 8)))) % 2

\* The character of the standard alphabet for a six-bit value: A-Z, a-z,
\* 0-9, + and /.
StandardChar(v) ==
    IF v < 26 THEN 65 + v
    ELSE IF v < 52 THEN 97 + (v - 26)
    ELSE IF v < 62 THEN 48 + (v - 52)
    ELSE IF v = 62 THEN 43 ELSE 47

\* Standard Base64 (RFC 4648, section 4): the bits taken six at a time, the
\* last group filled up with zero bits, then '=' up to a multiple of four
\* characters.
StandardBase64(data) ==
    LET groups == ((8 * Len(data)) + 5) \div 6
        chars == [k \in 1 .. groups |->
                    StandardChar(32 * BitAt(data, 6 * k - 5)
                                 + 16 * BitAt(data, 6 * k - 4)
                                 + 8 * BitAt(data, 6 * k - 3)
                                 + 4 * BitAt(data, 6 * k - 2)
                                 + 2 * BitAt(data, 6 * k - 1)
                                 + BitAt(data, 6 * k))]
        pad == (4 - (groups % 4)) % 4
    IN chars \o [i \in 1 .. pad |-> 61]

\* C24: base64_encode(data) is the standard Base64 encoding of data: it has
\* 4 * ceil(n / 3) characters, none of them a line break, and ends with
\* two, one or no '=' when n mod 3 is 1, 2 or 0.
C24_Base64IsStandard ==
    (req.op = "base64_encode" /\ req.done) =>
        LET n == Len(req.input)
            out == req.output
            pads == Cardinality({ i \in 1 .. Len(out) : out[i] = 61 })
        IN /\ out = StandardBase64(req.input)
           /\ Len(out) = 4 * ((n + 2) \div 3)
           /\ pads = (IF n % 3 = 1 THEN 2 ELSE IF n % 3 = 2 THEN 1 ELSE 0)
           /\ \A i \in 1 .. Len(out) :
                /\ out[i] \notin { 10, 13 }
                /\ out[i] = 61 => i > Len(out) - pads

\* The long input, whose length leaves one byte over, was encoded.
C24_Witness ==
    /\ req.op = "base64_encode"
    /\ req.done
    /\ Len(req.input) = LongData
    /\ Len(req.output) > LongData
    /\ req.output[Len(req.output)] = 61

\* The error kind of a stage.
KindOf(stage) ==
    IF stage = "connect" THEN "RtorrentConnection"
    ELSE IF stage \in { "write", "read" } THEN "ScgiError"
    ELSE "XmlRpcError"

\* C25: every failure of a client operation is reported as the kind of the
\* stage that failed: RtorrentConnection for connect, ScgiError for write
\* and read, XmlRpcError for a response that cannot be decoded; an operation
\* none of whose stages failed returns Ok.
C25_FailureReportedByStage ==
    call.pc = "returned" =>
        LET result == Unwrap(call.result) IN
        /\ call.failed = << >> => result.ok
        /\ call.failed # << >> =>
             /\ ~result.ok
             /\ Len(call.failed) = 1
             /\ result.kind = KindOf(call.failed[1])

\* C26: get_torrents, get_global_stats and get_client_version return a
\* decode error when a response cannot be decoded, and never a success
\* computed from such a response.
C26_UndecodableResponseIsAnError ==
    ( /\ call.pc = "returned"
      /\ Decodes(call.op)
      /\ \E i \in DOMAIN call.failed : call.failed[i] = "decode" )
      => /\ ~Unwrap(call.result).ok
         /\ call.failed[Len(call.failed)] = "decode"
              => Unwrap(call.result).kind = "XmlRpcError"

\* The identifiers of a list of records are pairwise distinct.
DistinctHashes(torrents) ==
    \A i, j \in DOMAIN torrents :
        i # j => torrents[i].hash # torrents[j].hash

\* C27: every snapshot in the 'latest' item slot or on the item feed holds
\* pairwise distinct identifiers.
C27_SnapshotIdentifiersDistinct ==
    /\ IsSome(last_torrents)
         => DistinctHashes(Unwrap(last_torrents).torrents)
    /\ \A i \in DOMAIN torrents_tx.buf :
         IsSome(torrents_tx.buf[i].val)
           => DistinctHashes(Unwrap(torrents_tx.buf[i].val).torrents)

\* The set with the membership of h flipped.
Flip(set, h) == IF h \in set THEN set \ { h } ELSE set \cup { h }

\* Task p is at the step of toggle_star that changes the set.
Mutating(p) == toggle[p].pc = "mutate" /\ toggle'[p].pc = "return"

\* C28: toggle_star(h) flips the membership of h and of nothing else, and
\* returns true iff h is in the set afterwards; the set changes in no other
\* step, whatever the poller, refresh_cache and the daemon do; at most one
\* task is between taking the write guard and returning.
C28_ToggleFlipsOnlyItsHash ==
    /\ [][ /\ \A p \in Tasks :
                Mutating(p) =>
                    /\ starred_torrents'
                         = Flip(starred_torrents, toggle[p].hash)
                    /\ toggle'[p].ret
                         = (toggle[p].hash \in starred_torrents')
           /\ starred_torrents' # starred_torrents
                => \E p \in Tasks : Mutating(p) ]_vars
    /\ [](\A p \in Tasks :
            toggle[p].pc = "return"
              => toggle[p].ret = (toggle[p].hash \in starred_torrents))
    /\ [](Cardinality({ p \in Tasks :
                          toggle[p].pc \in {"contains", "mutate", "return"} })
            <= 1)

\* A second toggle of the same identifier has emptied the set again, while
\* the other task waits for the guard and a snapshot has been fetched.
C28_Witness ==
    /\ \E p \in Tasks :
         /\ toggle[p].pc = "return"
         /\ toggle[p].found
         /\ ~toggle[p].ret
    /\ \E p \in Tasks : toggle[p].pc = "write"
    /\ starred_torrents = {}
    /\ fetches >= 1

\* C29: the end of a row gives a record if and only if the row has exactly
\* 12 scalar elements.
C29_RecordIffArityIsTwelve ==
    [][ (xml.at = "row" /\ xml'.at = "outer")
          => /\ xml.col = 12
                 => Len(parse'.torrents) = Len(parse.torrents) + 1
             /\ xml.col # 12 => parse'.torrents = parse.torrents ]_vars

\* C30: inside a row each scalar element adds exactly one value, whatever
\* the number of text events inside it: between two elements the values are
\* as many as the elements of the row so far.
C30_OneValuePerScalarElement ==
    (parse.pc = "loop" /\ xml.at = "row")
        => Len(parse.current_values) = xml.col

\* The field of a record that position i, counted from 1, of its row gives.
Field(t, i) ==
    IF i = 1 THEN t.hash ELSE IF i = 2 THEN t.name
    ELSE IF i = 3 THEN t.size_bytes ELSE IF i = 4 THEN t.completed_bytes
    ELSE IF i = 5 THEN t.down_rate ELSE IF i = 6 THEN t.up_rate
    ELSE IF i = 7 THEN t.is_active ELSE IF i = 8 THEN t.is_open
    ELSE IF i = 9 THEN t.is_hashing ELSE IF i = 10 THEN t.complete
    ELSE IF i = 11 THEN t.message ELSE t.ratio

\* The positions, counted from 1, of the numbers and of the flags.
NumberPositions == { 3, 4, 5, 6 }
FlagPositions == { 7, 8, 9, 10 }

\* The string is empty or is not a decimal integer.
NotANumber(str) ==
    \/ str = << >>
    \/ str \in { << 43 >>, << 45 >> }
    \/ \E i \in 1 .. Len(str) :
         /\ str[i] \notin 48 .. 57
         /\ ~(i = 1 /\ str[1] \in { 43, 45 })

\* The number a decimal integer writes.
NumberOf(str) ==
    IF str[1] = 45 THEN 0 - DecValue(Tail(str))
    ELSE IF str[1] = 43 THEN DecValue(Tail(str))
    ELSE DecValue(str)

\* The end of the only row has been read.
RowEnded == parse.pc = "loop" /\ xml.at = "outer" /\ Len(xml.rows) = 1

\* The record of the only row: it is produced, no error is raised, a numeric
\* position whose text is `bad` gives 0 (false for a flag, 0.0 for the
\* ratio, whose texts are judged by badRatio), and every field whose value
\* is the one of the example row is the one the example row gives.
ZeroInItsFieldOnly(bad(_), badRatio(_)) ==
    RowEnded =>
        /\ Len(parse.torrents) = 1
        /\ parse.result = None
        /\ LET v == parse.current_values
               t == parse.torrents[1]
           IN /\ \A i \in NumberPositions : bad(v[i].s) => Field(t, i) = 0
              /\ \A i \in FlagPositions : bad(v[i].s) => Field(t, i) = FALSE
              /\ badRatio(v[12].s) => t.ratio.class = "finite"
              /\ badRatio(v[12].s) => t.ratio.thousandths = 0
              /\ \A i \in 1 .. 11 :
                    v[i] = ExampleRow[i] =>
                        Field(t, i) =
                            << v[1], v[2], 1000, 500, 100, 0, TRUE, TRUE,
                               FALSE, FALSE, Blank >>[i]
              /\ v[12] = ExampleRow[12] => t.ratio.class = "finite"
              /\ v[12] = ExampleRow[12] => t.ratio.thousandths = 2000

\* The string is empty or f64's parser rejects it: it is not a decimal
\* integer and not the name of an f64 that is not finite.
NotAFloat(str) ==
    /\ NotANumber(str)
    /\ ~ \E word \in { << 110, 97, 110 >>, << 105, 110, 102 >>,
                       << 105, 110, 102, 105, 110, 105, 116, 121 >> } :
           \E sign \in { << >>, << 43 >>, << 45 >> } :
              /\ Len(str) = Len(sign) + Len(word)
              /\ SubSeq(str, 1, Len(sign)) = sign
              /\ \A i \in 1 .. Len(word) :
                    str[Len(sign) + i] \in { word[i], word[i] - 32 }

\* C31 (as stated): in a row of 12 values, a value that is empty or not a
\* number in a numeric position (the ratio included) gives 0, false for a
\* flag, in its field only; the record is produced and no error is raised.
C31_BadNumberIsZeroInItsFieldOnly == ZeroInItsFieldOnly(NotANumber, NotANumber)

\* C31 (amended): in a row of 12 values, a value that the parser of its
\* numeric position rejects gives 0, false for a flag, in its field only;
\* the record is produced and no error is raised.  The ratio's parser is
\* f64's, which rejects a text that is not a number unless it is "nan",
\* "inf" or "infinity", signed or not, in any case of the letters.
C31_RejectedNumberIsZeroInItsFieldOnly == ZeroInItsFieldOnly(NotANumber, NotAFloat)

\* The size of a row is "1x" and its name is empty; its record has size 0
\* and the completed bytes of the example.
C31_Witness ==
    /\ RowEnded
    /\ Len(parse.torrents) = 1
    /\ parse.current_values[3].s = << 49, 120 >>
    /\ parse.current_values[2] = Blank
    /\ parse.torrents[1].size_bytes = 0
    /\ parse.torrents[1].completed_bytes = 500

\* C32: the fields of a record are the values at positions 0 to 11 of its
\* row, in the order identifier, name, size, completed, download rate,
\* upload rate, active, open, hashing, complete, message, ratio, the ratio
\* being the 12th value divided by 1000 (kept in thousandths here); the
\* example row gives 50% progress, state Downloading and ratio 2.
C32_FieldsArePositional ==
    (RowEnded /\ Len(parse.torrents) = 1) =>
        LET v == parse.current_values
            t == parse.torrents[1]
        IN /\ \A i \in { 1, 2, 11 } : Field(t, i) = v[i]
           /\ \A i \in NumberPositions :
                ~NotANumber(v[i].s) => Field(t, i) = NumberOf(v[i].s)
           /\ \A i \in FlagPositions :
                ~NotANumber(v[i].s) => Field(t, i) = (NumberOf(v[i].s) = 1)
           /\ ~NotANumber(v[12].s) => t.ratio = Finite(NumberOf(v[12].s))
           /\ v = ExampleRow =>
                /\ ProgressPercent(t).num = 50 * ProgressPercent(t).den
                /\ t.state = "Downloading"
                /\ t.ratio.class = "finite"
                /\ t.ratio.thousandths = 2 * 1000

\* The example row has given its record.
C32_Witness ==
    /\ RowEnded
    /\ parse.current_values = ExampleRow
    /\ Len(parse.torrents) = 1
    /\ parse.torrents[1].name.s
         = << 85, 98, 117, 110, 116, 117, 46, 105, 115, 111 >>

\* pattern is in doc at position i.
Occurs(doc, pattern, i) ==
    /\ i + Len(pattern) - 1 <= Len(doc)
    /\ SubSeq(doc, i, i + Len(pattern) - 1) = pattern

\* The contents of the string parameters of a request document, entities
\* resolved, in the order of the document: what is between each
\* <param><value><string> and the next </string>.
StringParams(doc) ==
    LET open == << 60, 112, 97, 114, 97, 109, 62, 60, 118, 97, 108, 117,
                   101, 62, 60, 115, 116, 114, 105, 110, 103, 62 >>
        close == << 60, 47, 115, 116, 114, 105, 110, 103, 62 >>
        opens == { i \in 1 .. Len(doc) : Occurs(doc, open, i) }
        nth(n) == CHOOSE i \in opens :
                     Cardinality({ j \in opens : j < i }) = n - 1
        content(i) ==
            LET from == i + Len(open)
                to == CHOOSE j \in from .. Len(doc) :
                         /\ Occurs(doc, close, j)
                         /\ \A m \in from .. j - 1 : ~Occurs(doc, close, m)
            IN Unescape(SubSeq(doc, from, to - 1))
    IN [n \in 1 .. Cardinality(opens) |-> content(nth(n))]

\* The specifier of each position the mapper reads, counted from 1: hash,
\* name, size, completed, down rate, up rate, active, open, hash-checking,
\* complete, message, ratio.
SpecifierOfField ==
    << << 100, 46, 104, 97, 115, 104, 61 >>,
       << 100, 46, 110, 97, 109, 101, 61 >>,
       << 100, 46, 115, 105, 122, 101, 95, 98, 121, 116, 101, 115, 61 >>,
       << 100, 46, 99, 111, 109, 112, 108, 101, 116, 101, 100, 95, 98, 121,
          116, 101, 115, 61 >>,
       << 100, 46, 100, 111, 119, 110, 46, 114, 97, 116, 101, 61 >>,
       << 100, 46, 117, 112, 46, 114, 97, 116, 101, 61 >>,
       << 100, 46, 105, 115, 95, 97, 99, 116, 105, 118, 101, 61 >>,
       << 100, 46, 105, 115, 95, 111, 112, 101, 110, 61 >>,
       << 100, 46, 105, 115, 95, 104, 97, 115, 104, 95, 99, 104, 101, 99,
          107, 105, 110, 103, 61 >>,
       << 100, 46, 99, 111, 109, 112, 108, 101, 116, 101, 61 >>,
       << 100, 46, 109, 101, 115, 115, 97, 103, 101, 61 >>,
       << 100, 46, 114, 97, 116, 105, 111, 61 >> >>

\* C33: a multicall request for k specifiers has exactly k + 2 string
\* parameters: an empty string, "main", then the k specifiers in the given
\* order; the request of get_torrents has the 12 specifiers of the
\* positions the mapper reads, in the order of the positions.
C33_MulticallParamsInOrder ==
    (req.op \in { "build_multicall_xml", "get_torrents" } /\ req.done) =>
        LET given == IF req.op = "get_torrents" THEN SpecifierOfField
                     ELSE req.input
            params == StringParams(req.output[1])
        IN /\ Len(req.output) = 1
           /\ Len(params) = Len(given) + 2
           /\ params = << << >>, << 109, 97, 105, 110 >> >> \o given

\* get_torrents has built its request: 14 string parameters, the third of
\* them the specifier of the hash and the last the one of the ratio.
C33_Witness ==
    /\ req.done
    /\ req.op = "get_torrents"
    /\ Len(StringParams(req.output[1])) = 14
    /\ StringParams(req.output[1])[3] = SpecifierOfField[1]
    /\ StringParams(req.output[1])[14] = SpecifierOfField[12]

\* The methods pause_torrent and resume_torrent are to send, in order.
MethodsInOrder(op) ==
    IF op = "pause_torrent" THEN << "d.stop", "d.close" >>
    ELSE << "d.open", "d.start" >>

\* C34: pause_torrent sends d.stop and then d.close, resume_torrent d.open
\* and then d.start, each request on a connection of its own; when a request
\* fails the operation returns that one error at once: the request after it
\* is never begun and no request is begun twice.
C34_TwoRequestsInOrderFirstFailureEnds ==
    call.op \in { "pause_torrent", "resume_torrent" } =>
        /\ call.request \in 1 .. 2
        /\ call.methods = SubSeq(MethodsInOrder(call.op), 1, call.request)
        /\ call.connects = IF call.pc = "connect" THEN call.request - 1
                           ELSE call.request
        /\ call.failed # << >> =>
             /\ call.pc = "returned"
             /\ Len(call.failed) = 1
             /\ ~Unwrap(call.result).ok
             /\ Len(call.bodies) = call.request - 1
        /\ (call.pc = "returned" /\ Unwrap(call.result).ok) =>
             /\ call.methods = MethodsInOrder(call.op)
             /\ call.connects = 2
             /\ call.failed = << >>

\* pause_torrent has returned the error of writing d.stop: d.close was not
\* begun.
C34_Witness ==
    /\ call.op = "pause_torrent"
    /\ call.pc = "returned"
    /\ call.failed = << "write" >>
    /\ call.methods = << "d.stop" >>
    /\ call.connects = 1
    /\ ~Unwrap(call.result).ok

\* The operations that change the daemon.
MutatingOps == { "pause_torrent", "resume_torrent", "remove_torrent",
                 "add_torrent_url", "add_torrent_file" }

\* C40: a mutation returns Ok exactly when each of its requests was written
\* and a response to it was read, whatever the bodies read, a fault
\* document and an empty body included; it returns an error only for a
\* failure to connect, to write or to read, and the error of that stage.
C40_MutationIgnoresResponseBody ==
    (call.op \in MutatingOps /\ call.pc = "returned") =>
        LET result == Unwrap(call.result)
            all == IF call.op \in { "pause_torrent", "resume_torrent" }
                   THEN 2 ELSE 1
        IN /\ result.ok <=> Len(call.bodies) = all
           /\ result.ok => result.value = << >>
           /\ ~result.ok =>
                /\ call.failed \in { << "connect" >>, << "write" >>,
                                     << "read" >> }
                /\ result.kind = IF call.failed = << "connect" >>
                                 THEN "RtorrentConnection" ELSE "ScgiError"

\* pause_torrent has returned Ok after reading a fault document and then an
\* empty body.
C40_Witness ==
    /\ call.op = "pause_torrent"
    /\ call.pc = "returned"
    /\ call.bodies = << "fault", "empty" >>
    /\ Unwrap(call.result).ok

\* The tick is over and one of its remote calls failed: get_torrents, or
\* get_global_stats after the items were fetched.
FailedTick ==
    /\ poller_pc = "tick_end"
    /\ \/ torrents_result = None
       \/ tick.get_global_stats = 1 /\ stats_result = None

\* C35: no failure of a remote call ends the poller: the tick in which
\* get_torrents or get_global_stats failed ends like any other, the poller
\* comes back to its select!, where the next tick is taken as after a tick
\* without failure, and the poller leaves its loop only after the shutdown
\* signal.
C35_RemoteFailureDoesNotEndPoller ==
    /\ [](poller_pc = "exited" => shutdown)
    /\ [][ /\ (poller_pc \in { "get_torrents", "get_global_stats" }
                 /\ poller_pc' # poller_pc)
               => poller_pc' \in { "store_torrents", "get_global_stats",
                                   "store_stats", "tick_end" }
           /\ (FailedTick /\ poller_pc' # poller_pc)
               => poller_pc' = "select" ]_vars
    /\ FailedTick ~> (poller_pc = "select")
    /\ []( (poller_pc = "select" /\ fetches + InFlight < MaxFetch)
             => ENABLED PollerTick(MaxFetch) )

\* get_global_stats has failed in a tick that fetched the items; no shutdown
\* was signalled.
C35_Witness ==
    /\ FailedTick
    /\ IsSome(torrents_result)
    /\ tick.get_global_stats = 1
    /\ ~shutdown

\* C36: for every record, one with completed bytes greater than size, size
\* 0, or a zero or negative download rate included, computing the progress
\* and the ETA does not panic, and the ETA is absent exactly when the item
\* is complete or its download rate is 0.
C36_ProgressAndEtaNeverPanic ==
    (req.op = "eta" /\ req.done) =>
        /\ req.output.progress # "panic"
        /\ req.output.eta # "panic"
        /\ req.output.eta = "none"
             <=> (req.input.complete \/ req.input.down_rate = [hi |-> 0, mid |-> 0, lo |-> 0])

\* The list the fetch of generation g returned.
ListOfGeneration(g) == DaemonLists[((g - 1) % Len(DaemonLists)) + 1]

\* The counters snapshot has the rates that are the sums over the items of
\* its tick, and the free-disk figure of the first item when greater than
\* zero, else the client's default.
CountersOfItems(snapshot) ==
    LET items == ListOfGeneration(snapshot.gen)
        total(field) ==
            LET RECURSIVE Upto(_)
                Upto(n) == IF n = 0 THEN 0
                           ELSE Upto(n - 1) + items[n][field]
            IN Upto(Len(items))
    IN /\ snapshot.down_rate = total("down_rate")
       /\ snapshot.up_rate = total("up_rate")
       /\ snapshot.free_disk_space =
            IF items # << >> /\ items[1].free_disk_space > 0
            THEN items[1].free_disk_space ELSE FreeDiskDefault

StoreThenSendInProgress ==
    \/ poller_pc \in { "store_torrents", "send_torrents" }
    \/ refresh_pc \in { "store", "send" }

\* C38: whenever no store-then-send of a publisher is in progress, the
\* 'latest' item slot holds the snapshot most recently sent on the item
\* feed, under every interleaving of the poller's ticks with calls of
\* refresh_cache.
C38_LatestIsMostRecentlySent ==
    (~StoreThenSendInProgress /\ sent["torrents"] > 0)
        => /\ IsSome(last_torrents)
           /\ Unwrap(last_torrents).gen = sent["torrents"]

\* C39: no subscriber of the item feed is delivered the same published
\* snapshot twice: the snapshot it read from the 'latest' slot as its first
\* delivery is never delivered to it again by the live feed, under every
\* interleaving of its read-then-subscribe with a publisher's
\* store-then-send.
C39_InitialNeverDeliveredAgain ==
    [][ \A s \in AllSubs :
          ( /\ sse[s].pc = "live" /\ sse'[s].pc = "live"
            /\ sse[s].feed = "torrents"
            /\ IsSome(sse[s].initial)
            /\ sse'[s].next = sse[s].next + 1 )
            => Unwrap(torrents_tx.buf[sse[s].next % Capacity].val).gen
                 # Unwrap(sse[s].initial).gen
      ]_vars
====
